---- MODULE Spec2Model ----
(***************************************************************************)
(* The order lifecycle of the design marketplace backend: order creation   *)
(* (routes/orders.js POST /) with the order-number hook of the Order model *)
(* (orderSchema.pre('save')), the admin status / tracking / refund routes  *)
(* and the owner-or-admin read.                                            *)
(*                                                                         *)
(* Every handler is cut at its awaits on the store: a read of the store is *)
(* one step, the write that follows is another, and steps of different     *)
(* requests interleave freely.  The store applies each single-document     *)
(* write atomically.                                                       *)
(*                                                                         *)
(* Money is counted in thousandths of a currency unit, so that the 8.5%    *)
(* tax of a whole-unit subtotal is an integer.                             *)
(***************************************************************************)
EXTENDS Integers, Sequences, FiniteSets, TLC

VARIABLES
    today,      \* the server's calendar day (index into the calendar)
    designs,    \* the Design collection: id -> [status, price]
    earlier,    \* orders of day 1 stored before the modelled window
    orders,     \* the Order collection, in insertion order (_id = index)
    req,        \* the requests in flight: slot -> handler position and locals
    last,       \* the response most recently sent
    reviews,    \* the Review collection, in insertion order (_id = index)
    posts,      \* the Blog collection: id -> post
    customRequests, \* the CustomRequest collection, in insertion order
    users       \* the User collection: id -> [favorites]

\* the collections of the review, blog, custom-request and favorite routes,
\* which no order route and no admin design route touches
content == <<reviews, posts, customRequests, users>>

vars == <<today, designs, earlier, orders, req, last, reviews, posts, customRequests, users>>

----------------------------------------------------------------------------
(* Bounds *)

MaxOrders == 2      \* orders inserted while order numbers are followed
MaxLive == 1        \* orders inserted while their lifecycle is followed
MaxDay == 2         \* calendar days the clock runs through
MaxUpdates == 3     \* tracking updates accepted per order
MaxReviews == 2     \* reviews inserted
MaxComments == 2    \* comments added to a blog post
MaxViews == 2       \* fetches of a blog post or of a design that count a view
MaxFavorites == 3   \* writes of a user's favorites
MaxRequests == 2    \* custom requests inserted
NearCapacity == 998 \* day-1 orders that may already be stored at the start

Reqs == {1, 2}     \* request slots: at most two handlers in flight

----------------------------------------------------------------------------
(* Users and the auth gate *)

Customers == {"u1", "u2"}
Admins == {"admin"}
Users == Customers \cup Admins

role(u) == IF u \in Admins THEN "admin" ELSE "customer"

\* middleware/auth adminAuth: lets a request through only for an admin
adminAuth(u) == role(u) = "admin"

----------------------------------------------------------------------------
(* Strings of digits *)

RECURSIVE toString(_)
\* Number.prototype.toString for a natural number, as a sequence of digits
toString(n) == IF n < 10 THEN <<n>> ELSE Append(toString(n \div 10), n % 10)

RECURSIVE padStart(_, _, _)
\* String.prototype.padStart: pads on the left up to width w, never truncates
padStart(s, w, c) == IF Len(s) >= w THEN s ELSE padStart(<<c>> \o s, w, c)

\* String.prototype.slice(-k): the last k characters (the whole string if shorter)
sliceLast(s, k) == IF Len(s) <= k THEN s ELSE SubSeq(s, Len(s) - k + 1, Len(s))

RECURSIVE trim(_)
\* the trim() sanitizer: a text, as a sequence of characters, without its
\* leading and trailing blanks
trim(s) ==
    IF s = <<>> THEN s
    ELSE IF s[1] = " " THEN trim(Tail(s))
    ELSE IF s[Len(s)] = " " THEN trim(SubSeq(s, 1, Len(s) - 1))
    ELSE s

RECURSIVE toNumber(_)
\* the natural number a sequence of digits denotes
toNumber(s) == IF s = <<>> THEN 0 ELSE 10 * toNumber(SubSeq(s, 1, Len(s) - 1)) + s[Len(s)]

----------------------------------------------------------------------------
(* The calendar: day 1 is 2025-12-30, so the window crosses a month and a year *)

DateOf(n) ==
    IF n <= 2 THEN [year |-> 2025, month |-> 12, date |-> 29 + n]
              ELSE [year |-> 2026, month |-> 1, date |-> n - 2]

Days == 1..MaxDay

\* part_003:131-133: year, month, day parts of the order number
datePrefix(n) ==
    LET d == DateOf(n)
        year == sliceLast(toString(d.year), 2)
        month == padStart(toString(d.month), 2, 0)
        day == padStart(toString(d.date), 2, 0)
    IN year \o month \o day

----------------------------------------------------------------------------
(* The catalog *)

DesignIds == {"dA", "dB", "dC", "dD"}   \* stored designs
MongoIds == DesignIds \cup {"dX"}       \* well-formed ids; dX is stored nowhere

\* what the seeded designs differ in
Seeded(status, price, category, style, isFeatured, created) ==
    [status |-> status, price |-> price, category |-> category, style |-> style,
     isFeatured |-> isFeatured, created |-> created, viewCount |-> 0]

InitDesigns ==
    [d \in DesignIds |->
        CASE d = "dA" -> Seeded("published", 100000, "modern", "modern", TRUE, 1)
          [] d = "dB" -> Seeded("published", 50000, "luxury", "modern", FALSE, 2)
          [] d = "dC" -> Seeded("draft", 70000, "modern", "industrial", TRUE, 3)
          [] d = "dD" -> Seeded("archived", 30000, "interior", "classical", TRUE, 4)]

----------------------------------------------------------------------------
(* Enumerations of the Order schema and of the route validators *)

OrderStatuses == {"pending", "processing", "completed", "cancelled", "refunded"}
PaymentStatuses == {"pending", "paid", "failed", "refunded"}
PaymentMethods == {"stripe", "paypal", "bank-transfer", "crypto"}
Licenses == {"personal", "commercial", "exclusive"}

taxRatePerMille == 85

----------------------------------------------------------------------------
(* Request bodies of POST /api/orders *)

WellFormedEmails == {"a@b.c"}
isEmail(e) == e \in WellFormedEmails

Item(d, q) == [design |-> d, quantity |-> q, license |-> "personal"]

Carts ==
    { <<Item("dA", 1), Item("dB", 2)>>,     \* 100 + 2 * 50
      <<Item("dB", 1)>>,
      <<Item("dA", 1), Item("dC", 1)>>,     \* second item is a draft
      <<Item("dD", 1), Item("dA", 1)>>,     \* first item is archived
      <<Item("dX", 1)>>,                    \* no such design
      <<Item("dB", 1), Item("dX", 1)>>,     \* no such design, after a valid item
      <<Item("dA", 0)>>,                    \* quantity below 1
      <<>> }                                \* empty cart

\* a body without shippingAddress; an absent field is the empty tuple
Body(cart, method, billing) ==
    [items |-> cart, paymentMethod |-> method, billingAddress |-> billing,
     shippingAddress |-> <<>>]

\* a body with a shippingAddress field
BodyShipped(cart, method, billing, shipping) ==
    [Body(cart, method, billing) EXCEPT !.shippingAddress = <<shipping>>]

\* the JSON value null
null == [null |-> TRUE]

GoodBilling == <<[name |-> "Ann", email |-> "a@b.c"]>>

CreateBodies ==
    { Body(c, "stripe", GoodBilling) : c \in Carts }
    \cup { Body(<<Item("dB", 1)>>, "cash", GoodBilling),
           Body(<<Item("dB", 1)>>, "paypal", <<>>),
           Body(<<Item("dB", 1)>>, "paypal", <<[name |-> "", email |-> "a@b.c"]>>),
           Body(<<Item("dB", 1)>>, "paypal", <<[name |-> "Ann", email |-> "ann"]>>) }

\* routes/orders.js:13-20: the validators of POST /
createValid(body) ==
    /\ Len(body.items) >= 1
    /\ \A i \in 1..Len(body.items) :
          /\ body.items[i].design \in MongoIds
          /\ body.items[i].quantity >= 1
          /\ body.items[i].license \in Licenses
    /\ body.paymentMethod \in PaymentMethods
    /\ Len(body.billingAddress) = 1
    /\ body.billingAddress[1].name # ""
    /\ isEmail(body.billingAddress[1].email)

\* Design.findById
findDesign(d) == IF d \in DOMAIN designs THEN <<designs[d]>> ELSE <<>>

\* only the first item's publication state is checked
firstRejectedHead(items) ==
    LET bad == { i \in 1..Len(items) :
                    \/ findDesign(items[i].design) = <<>>
                    \/ i = 1 /\ findDesign(items[i].design)[1].status # "published" }
    IN IF bad = {} THEN 0 ELSE CHOOSE i \in bad : \A j \in bad : i <= j

\* routes/orders.js:35-43: the first item, in cart order, that stops the loop
\* (0 when every item resolves to a published design)
firstRejected(items) ==
    LET bad == { i \in 1..Len(items) :
                    \/ findDesign(items[i].design) = <<>>
                    \/ findDesign(items[i].design)[1].status # "published" }
    IN IF bad = {} THEN 0 ELSE CHOOSE i \in bad : \A j \in bad : i <= j

\* the line total stored as the item's price
orderItemsLineTotal(items) ==
    [i \in 1..Len(items) |->
        [design |-> items[i].design,
         quantity |-> items[i].quantity,
         price |-> designs[items[i].design].price * items[i].quantity,
         license |-> items[i].license]]

\* routes/orders.js:48-53
orderItems(items) ==
    [i \in 1..Len(items) |->
        [design |-> items[i].design,
         quantity |-> items[i].quantity,
         price |-> designs[items[i].design].price,
         license |-> items[i].license]]

RECURSIVE cartSubtotal(_)
\* routes/orders.js:33-46: subtotal += design.price * item.quantity, in cart order
cartSubtotal(items) ==
    IF items = <<>> THEN 0
    ELSE cartSubtotal(SubSeq(items, 1, Len(items) - 1))
         + designs[items[Len(items)].design].price * items[Len(items)].quantity

RECURSIVE sumItems(_)
\* part_003:156: items.reduce((sum, item) => sum + item.price * item.quantity, 0)
sumItems(items) ==
    IF items = <<>> THEN 0
    ELSE sumItems(SubSeq(items, 1, Len(items) - 1))
         + items[Len(items)].price * items[Len(items)].quantity

\* routes/orders.js:58
taxOf(subtotal) == (subtotal * taxRatePerMille) \div 1000

\* the tax left out of the total
totalWithoutTax(subtotal, tax) == subtotal

\* routes/orders.js:59
totalOf(subtotal, tax) == subtotal + tax

\* every order shipped to its billing address
shippingToBilling(body) == body.billingAddress[1]

\* routes/orders.js:70: shippingAddress || billingAddress; an absent field and
\* null are falsy, an address object is truthy
shippingOf(body) ==
    IF body.shippingAddress = <<>> \/ body.shippingAddress = <<null>>
    THEN body.billingAddress[1]
    ELSE body.shippingAddress[1]

\* routes/orders.js:62-72 with the schema defaults of the Order model
newOrder(user, body) ==
    LET subtotal == cartSubtotal(body.items)
        tax == taxOf(subtotal)
    IN [customer |-> user,
        items |-> orderItems(body.items),
        subtotal |-> subtotal,
        tax |-> tax,
        total |-> totalOf(subtotal, tax),
        billingAddress |-> body.billingAddress[1],
        shippingAddress |-> shippingOf(body),
        status |-> "pending",
        paymentStatus |-> "pending",
        tracking |-> [status |-> "", updates |-> <<>>],
        refund |-> <<>>]

\* orderSchema.methods.calculateTotals
calculateTotals(o) ==
    LET subtotal == sumItems(o.items)
    IN [o EXCEPT !.subtotal = subtotal, !.total = subtotal + o.tax]

----------------------------------------------------------------------------
(* The order-number hook, orderSchema.pre('save') *)

\* part_003:139-141: countDocuments over [todayStart, todayEnd)
orderCount(day) ==
    (IF day = 1 THEN earlier ELSE 0)
    + Cardinality({ i \in 1..Len(orders) : orders[i].createdAt = day })

\* part_003:143
sequence(count) == padStart(toString(count + 1), 3, 0)

\* part_003:144: `ORD${year}${month}${day}${sequence}`
orderNumber(day, count) == [tag |-> "ORD", digits |-> datePrefix(day) \o sequence(count)]

\* the numbers held by the day-1 orders stored before the window: they were
\* created one after the other, so they carry the sequences 1..earlier
heldEarlier(num) ==
    LET n == Len(datePrefix(1))
        k == toNumber(SubSeq(num.digits, n + 1, Len(num.digits)))
    IN k \in 1..earlier /\ num = orderNumber(1, k - 1)

\* orderNumber declared without `unique: true`: every insert is accepted
uniqueIndexDropped(num) == TRUE

\* part_003:4-8: the unique index on orderNumber accepts the insert
uniqueIndexAccepts(num) ==
    /\ ~heldEarlier(num)
    /\ \A i \in 1..Len(orders) : orders[i].orderNumber # num

----------------------------------------------------------------------------
(* Requests and responses *)

Idle == [pc |-> "idle"]

\* a response, with the request it answers: the route, the caller, the :id of
\* the request (0 when the route has none) and its body (kept for the requests
\* on a stored order and for a creation refused for one of its designs); then
\* the HTTP status, the order whose data the response carries (0 when it
\* carries none) and the message
Response(op, user, target, body, status, order, msg) ==
    [op |-> op, user |-> user, target |-> target, body |-> body,
     status |-> status, order |-> order, msg |-> msg]

NoBody == <<>>

\* a new request takes the first free slot
freeSlot(r) == req[r].pc = "idle" /\ \A q \in Reqs : q < r => req[q].pc # "idle"

inFlight(op) == { r \in Reqs : req[r].pc # "idle" /\ req[r].op = op }

\* the seeded blog posts: no comment and no view yet; added counts the
\* comments ever pushed (the _id of the next one), version is the document's
\* version key
PostIds == {"p1"}
InitPosts ==
    [p \in PostIds |->
        [title |-> <<"T", "r", "e", "n", "d", "s">>,
         comments |-> <<>>, commentCount |-> 0, viewCount |-> 0,
         added |-> 0, version |-> 0]]

\* the content collections at the start: no review, no custom request, no
\* favorite
InitContent ==
    /\ reviews = <<>>
    /\ posts = InitPosts
    /\ customRequests = <<>>
    /\ users = [u \in Users |-> [favorites |-> <<>>, version |-> 0]]

\* an empty Order collection
Init ==
    /\ today = 1
    /\ designs = InitDesigns
    /\ earlier = 0
    /\ orders = <<>>
    /\ req = [r \in Reqs |-> Idle]
    /\ last = Response("none", "none", 0, NoBody, 0, 0, "")
    /\ InitContent

\* a collection that may already hold the orders of a busy day 1
InitNumbers ==
    /\ today = 1
    /\ designs = InitDesigns
    /\ earlier \in {0, NearCapacity}
    /\ orders = <<>>
    /\ req = [r \in Reqs |-> Idle]
    /\ last = Response("none", "none", 0, NoBody, 0, 0, "")
    /\ InitContent

----------------------------------------------------------------------------
(* POST /api/orders *)

\* routes/orders.js:24-27: validation errors
CreateInvalid(u, body) ==
    /\ ~createValid(body)
    /\ last' = Response("create", u, 0, NoBody, 400, 0, "validation")
    /\ UNCHANGED <<content, today, designs, earlier, orders, req>>

\* a missing design answered as a missing resource
rejectionNotFound(d) ==
    IF findDesign(d) = <<>>
    THEN [status |-> 404, msg |-> "not found"]
    ELSE [status |-> 400, msg |-> "not available"]

\* routes/orders.js:37-43: the answer to an item whose design d stops the loop
rejection(d) ==
    IF findDesign(d) = <<>>
    THEN [status |-> 400, msg |-> "not found"]
    ELSE [status |-> 400, msg |-> "not available"]

\* routes/orders.js:35-43: an item's design is missing or not published
CreateRejected(u, body) ==
    /\ createValid(body)
    /\ firstRejected(body.items) # 0
    /\ LET answer == rejection(body.items[firstRejected(body.items)].design)
       IN last' = Response("create", u, 0, body, answer.status, 0, answer.msg)
    /\ UNCHANGED <<content, today, designs, earlier, orders, req>>

\* routes/orders.js:62-74 up to the count of the pre-save hook (part_003:129-141):
\* the document is built, stamped with its creation time, and today's orders
\* are counted
CreateCount(r, u, body, cap) ==
    /\ freeSlot(r)
    /\ Len(orders) + Cardinality(inFlight("create")) < cap
    /\ createValid(body)
    /\ firstRejected(body.items) = 0
    /\ req' = [req EXCEPT ![r] =
                  [pc |-> "insert", op |-> "create", user |-> u, body |-> body,
                   doc |-> newOrder(u, body),
                   date |-> today,
                   orderCount |-> orderCount(today)]]
    /\ UNCHANGED <<content, today, designs, earlier, orders, last>>

\* the number assigned at every save, without the isNew test
preSaveAlways(o, isNew, day, count) ==
    [orderNumber |-> orderNumber(day, count)]
       @@ [f \in DOMAIN o \ {"orderNumber"} |-> o[f]]

\* part_003:128-147: the hook numbers a document only when it is new; day and
\* count are the date and the countDocuments result of the hook
preSave(o, isNew, day, count) ==
    IF isNew THEN [orderNumber |-> orderNumber(day, count)] @@ o ELSE o

\* part_003:143-146 and the insert: the number is derived from the count taken
\* earlier; the unique index rejects a number already stored (the handler's
\* catch answers 500)
CreateInsert(r) ==
    /\ req[r].pc = "insert"
    /\ LET doc == preSave([createdAt |-> req[r].date] @@ req[r].doc, TRUE,
                          req[r].date, req[r].orderCount)
           num == doc.orderNumber
       IN IF uniqueIndexAccepts(num)
          THEN /\ orders' = Append(orders, doc)
               /\ last' = Response("create", req[r].user, 0, NoBody, 201, Len(orders) + 1, "created")
          ELSE /\ orders' = orders
               /\ last' = Response("create", req[r].user, 0, NoBody, 500, 0, "Server error")
    /\ req' = [req EXCEPT ![r] = Idle]
    /\ UNCHANGED <<content, today, designs, earlier>>

----------------------------------------------------------------------------
(* Loading and saving a stored order *)

OrderIds == 0..MaxLive    \* :id values; 0 stands for an id that is no ObjectId

\* Order.findById: none for an unknown id; a malformed id raises a CastError,
\* which the handlers' catch also answers with 404
findOrder(id) == IF id \in 1..Len(orders) THEN <<orders[id]>> ELSE <<>>

\* Document#save of a loaded document writes the paths whose assigned value
\* differs from the loaded one; a path assigned its loaded value is not
\* modified and keeps what the store holds
savedPath(stored, loaded, assigned) == IF assigned # loaded THEN assigned ELSE stored

----------------------------------------------------------------------------
(* PUT /api/orders/:id/status *)

StatusBodies ==
    { [status |-> "processing", paymentStatus |-> <<"paid">>],
      [status |-> "cancelled", paymentStatus |-> <<>>],
      [status |-> "shipped", paymentStatus |-> <<>>],           \* no order status
      [status |-> "processing", paymentStatus |-> <<"free">>] } \* no payment status

\* the payment status left unchecked
statusValidStatusOnly(body) == body.status \in OrderStatuses

\* routes/orders.js:157-158
statusValid(body) ==
    /\ body.status \in OrderStatuses
    /\ IF body.paymentStatus = <<>> THEN TRUE ELSE body.paymentStatus[1] \in PaymentStatuses

StatusInvalid(u, id, body) ==
    /\ adminAuth(u)
    /\ ~statusValid(body)
    /\ last' = Response("status", u, id, body, 400, 0, "validation")
    /\ UNCHANGED <<content, today, designs, earlier, orders, req>>

StatusNotFound(u, id, body) ==
    /\ adminAuth(u)
    /\ statusValid(body)
    /\ findOrder(id) = <<>>
    /\ last' = Response("status", u, id, body, 404, 0, "Order not found")
    /\ UNCHANGED <<content, today, designs, earlier, orders, req>>

\* routes/orders.js:167-177: the order is read and the body's values assigned
StatusLoad(r, u, id, body) ==
    /\ freeSlot(r)
    /\ adminAuth(u)
    /\ statusValid(body)
    /\ findOrder(id) # <<>>
    /\ req' = [req EXCEPT ![r] =
                  [pc |-> "save", op |-> "status", user |-> u, order |-> id,
                   body |-> body,
                   loaded |-> [status |-> orders[id].status,
                               paymentStatus |-> orders[id].paymentStatus]]]
    /\ UNCHANGED <<content, today, designs, earlier, orders, last>>

\* the refund record dropped when the order is given a status other than
\* refunded
statusSavedClearsRefund(o, loaded, body) ==
    [o EXCEPT
        !.status = savedPath(@, loaded.status, body.status),
        !.paymentStatus =
            IF body.paymentStatus # <<>>
            THEN savedPath(@, loaded.paymentStatus, body.paymentStatus[1])
            ELSE @,
        !.refund = IF body.status # "refunded" THEN <<>> ELSE @]

\* a transition graph enforced: an order that is completed or refunded stays so
statusSavedTerminal(o, loaded, body) ==
    IF loaded.status \in {"completed", "refunded"} THEN o
    ELSE [o EXCEPT
            !.status = savedPath(@, loaded.status, body.status),
            !.paymentStatus =
                IF body.paymentStatus # <<>>
                THEN savedPath(@, loaded.paymentStatus, body.paymentStatus[1])
                ELSE @]

\* routes/orders.js:174-177 applied by the save of line 179
statusSaved(o, loaded, body) ==
    [o EXCEPT
        !.status = savedPath(@, loaded.status, body.status),
        !.paymentStatus =
            IF body.paymentStatus # <<>>
            THEN savedPath(@, loaded.paymentStatus, body.paymentStatus[1])
            ELSE @]

StatusSave(r) ==
    /\ req[r].pc = "save"
    /\ req[r].op = "status"
    /\ LET id == req[r].order
       IN /\ orders' = [orders EXCEPT ![id] =
                          preSave(statusSaved(@, req[r].loaded, req[r].body), FALSE,
                                  today, orderCount(today))]
          /\ last' = Response("status", req[r].user, id, req[r].body, 200, id, "updated")
    /\ req' = [req EXCEPT ![r] = Idle]
    /\ UNCHANGED <<content, today, designs, earlier>>

----------------------------------------------------------------------------
(* POST /api/orders/:id/tracking *)

\* location and description are texts, sequences of characters; an absent one
\* is the empty text
TrackingBodies ==
    { [status |-> "shipped", location |-> <<" ", "h", "u", "b">>, description |-> <<"o", "k", " ">>],
      [status |-> "delivered", location |-> <<>>, description |-> <<>>],
      [status |-> "", location |-> <<"h", "u", "b">>, description |-> <<>>] }

\* routes/orders.js:202: notEmpty on status
trackingValid(body) == body.status # ""

TrackingInvalid(u, id, body) ==
    /\ adminAuth(u)
    /\ ~trackingValid(body)
    /\ last' = Response("tracking", u, id, body, 400, 0, "validation")
    /\ UNCHANGED <<content, today, designs, earlier, orders, req>>

TrackingNotFound(u, id, body) ==
    /\ adminAuth(u)
    /\ trackingValid(body)
    /\ findOrder(id) = <<>>
    /\ last' = Response("tracking", u, id, body, 404, 0, "Order not found")
    /\ UNCHANGED <<content, today, designs, earlier, orders, req>>

\* tracking requests in flight on order id
trackingInFlight(id) == { r \in inFlight("tracking") : req[r].order = id }

\* routes/orders.js:203-220: location and description are trimmed, the order
\* is read and addTrackingUpdate called, which stamps the entry with the
\* current time
TrackingLoad(r, u, id, body) ==
    /\ freeSlot(r)
    /\ adminAuth(u)
    /\ trackingValid(body)
    /\ findOrder(id) # <<>>
    /\ Len(orders[id].tracking.updates) + Cardinality(trackingInFlight(id)) < MaxUpdates
    /\ req' = [req EXCEPT ![r] =
                  [pc |-> "save", op |-> "tracking", user |-> u, order |-> id,
                   body |-> body,
                   location |-> trim(body.location),
                   description |-> trim(body.description),
                   timestamp |-> today,
                   loaded |-> [status |-> orders[id].tracking.status,
                               updates |-> orders[id].tracking.updates]]]
    /\ UNCHANGED <<content, today, designs, earlier, orders, last>>

\* an update repeating the current tracking status is dropped
addTrackingUpdateOnChange(o, loaded, status, location, description, timestamp) ==
    IF status = loaded.status THEN o
    ELSE [o EXCEPT
            !.tracking.updates =
                Append(@, [status |-> status, location |-> location,
                           timestamp |-> timestamp, description |-> description]),
            !.tracking.status = status]

\* the whole log written back as it was loaded, with the new entry
addTrackingUpdateOverwrite(o, loaded, status, location, description, timestamp) ==
    [o EXCEPT
        !.tracking.updates =
            Append(loaded.updates, [status |-> status, location |-> location,
                                    timestamp |-> timestamp, description |-> description]),
        !.tracking.status = savedPath(@, loaded.status, status)]

\* orderSchema.methods.addTrackingUpdate as its save applies it: the pushed
\* entry is appended to the stored log, tracking.status is a saved path
addTrackingUpdate(o, loaded, status, location, description, timestamp) ==
    [o EXCEPT
        !.tracking.updates =
            Append(@, [status |-> status, location |-> location,
                       timestamp |-> timestamp, description |-> description]),
        !.tracking.status = savedPath(@, loaded.status, status)]

TrackingSave(r) ==
    /\ req[r].pc = "save"
    /\ req[r].op = "tracking"
    /\ LET id == req[r].order
       IN /\ orders' = [orders EXCEPT ![id] =
                          preSave(addTrackingUpdate(@, req[r].loaded, req[r].body.status,
                                                    req[r].location, req[r].description,
                                                    req[r].timestamp),
                                  FALSE, today, orderCount(today))]
          /\ last' = Response("tracking", req[r].user, id, req[r].body, 200, 0, "Tracking update added")
    /\ req' = [req EXCEPT ![r] = Idle]
    /\ UNCHANGED <<content, today, designs, earlier>>

----------------------------------------------------------------------------
(* POST /api/orders/:id/refund *)

\* 217000 is the total of the two-item cart and exceeds that of the other
RefundAmounts == { <<>>, <<-1000>>, <<0>>, <<217000>>, <<217001>> }
RefundBodies ==
    [amount : RefundAmounts, reason : {"damaged"}]
    \cup { [amount |-> <<0>>, reason |-> ""] }

\* routes/orders.js:236-237
refundValid(body) ==
    /\ body.amount # <<>>
    /\ body.amount[1] >= 0
    /\ body.reason # ""

RefundInvalid(u, id, body) ==
    /\ adminAuth(u)
    /\ ~refundValid(body)
    /\ last' = Response("refund", u, id, body, 400, 0, "validation")
    /\ UNCHANGED <<content, today, designs, earlier, orders, req>>

RefundNotFound(u, id, body) ==
    /\ adminAuth(u)
    /\ refundValid(body)
    /\ findOrder(id) = <<>>
    /\ last' = Response("refund", u, id, body, 404, 0, "Order not found")
    /\ UNCHANGED <<content, today, designs, earlier, orders, req>>

\* the comparison left out
exceedsNothing(amount, o) == FALSE

\* routes/orders.js:253
exceedsTotal(amount, o) == amount > o.total

RefundExceeds(u, id, body) ==
    /\ adminAuth(u)
    /\ refundValid(body)
    /\ findOrder(id) # <<>>
    /\ exceedsTotal(body.amount[1], orders[id])
    /\ last' = Response("refund", u, id, body, 400, 0, "Refund amount cannot exceed order total")
    /\ UNCHANGED <<content, today, designs, earlier, orders, req>>

\* routes/orders.js:246-257: the order is read and processRefund called, which
\* stamps the refund record with the current time
RefundLoad(r, u, id, body) ==
    /\ freeSlot(r)
    /\ adminAuth(u)
    /\ refundValid(body)
    /\ findOrder(id) # <<>>
    /\ ~exceedsTotal(body.amount[1], orders[id])
    /\ req' = [req EXCEPT ![r] =
                  [pc |-> "save", op |-> "refund", user |-> u, order |-> id,
                   body |-> body,
                   processedAt |-> today,
                   loaded |-> [status |-> orders[id].status,
                               paymentStatus |-> orders[id].paymentStatus]]]
    /\ UNCHANGED <<content, today, designs, earlier, orders, last>>

\* the payment status left as it was
processRefundStatusOnly(o, loaded, amount, reason, processedBy, processedAt) ==
    [o EXCEPT
        !.refund = <<[amount |-> amount, reason |-> reason,
                      processedAt |-> processedAt, processedBy |-> processedBy]>>,
        !.status = savedPath(@, loaded.status, "refunded")]

\* orderSchema.methods.processRefund as its save applies it: the refund record
\* is written whole, the two statuses are saved paths
processRefund(o, loaded, amount, reason, processedBy, processedAt) ==
    [o EXCEPT
        !.refund = <<[amount |-> amount, reason |-> reason,
                      processedAt |-> processedAt, processedBy |-> processedBy]>>,
        !.status = savedPath(@, loaded.status, "refunded"),
        !.paymentStatus = savedPath(@, loaded.paymentStatus, "refunded")]

RefundSave(r) ==
    /\ req[r].pc = "save"
    /\ req[r].op = "refund"
    /\ LET id == req[r].order
       IN /\ orders' = [orders EXCEPT ![id] =
                          preSave(processRefund(@, req[r].loaded, req[r].body.amount[1],
                                                req[r].body.reason, req[r].user,
                                                req[r].processedAt),
                                  FALSE, today, orderCount(today))]
          /\ last' = Response("refund", req[r].user, id, req[r].body, 200, 0, "Refund processed")
    /\ req' = [req EXCEPT ![r] = Idle]
    /\ UNCHANGED <<content, today, designs, earlier>>

----------------------------------------------------------------------------
(* GET /api/orders/:id *)

\* || in place of &&: only an admin who is the customer gets through
accessDeniedEither(o, u) == o.customer # u \/ role(u) # "admin"

\* routes/orders.js:139: the caller is neither the order's customer nor an admin
accessDenied(o, u) == o.customer # u /\ role(u) # "admin"

GetOrder(u, id) ==
    /\ last' = IF findOrder(id) = <<>>
               THEN Response("get", u, id, NoBody, 404, 0, "Order not found")
               ELSE IF accessDenied(orders[id], u)
               THEN Response("get", u, id, NoBody, 403, 0, "Access denied")
               ELSE Response("get", u, id, NoBody, 200, id, "")
    /\ UNCHANGED <<content, today, designs, earlier, orders, req>>

----------------------------------------------------------------------------
(* GET /api/orders *)

defaultPage == 1
defaultLimit == 10

\* the query: page, limit and status, each absent (the empty tuple) or sent;
\* page and limit are sent as decimal numerals
ListQueries ==
    [page : { <<>>, <<0>>, <<2>> },
     limit : { <<>>, <<0>>, <<1>> },
     status : { <<>>, <<"processing">> }]

\* parseInt of a query value that is a numeral, after the default of line 96
parseInt(v, default) == IF v = <<>> THEN default ELSE v[1]

\* routes/orders.js:97
skipOf(query) ==
    (parseInt(query.page, defaultPage) - 1) * parseInt(query.limit, defaultLimit)

\* routes/orders.js:99-100: the caller's orders, of the status sent if any
matching(u, query) ==
    { i \in 1..Len(orders) :
         /\ orders[i].customer = u
         /\ IF query.status = <<>> THEN TRUE ELSE orders[i].status = query.status[1] }

RECURSIVE newestFirst(_)
\* sort({ createdAt: -1 }): the orders of a set, the last stored first
newestFirst(S) ==
    IF S = {} THEN <<>>
    ELSE LET m == CHOOSE i \in S : \A j \in S : j <= i
         IN <<m>> \o newestFirst(S \ {m})

\* skip(n) of a cursor
skipped(list, n) == IF n >= Len(list) THEN <<>> ELSE SubSeq(list, n + 1, Len(list))

\* limit(n) of a cursor: the first n results; a limit of 0 is no limit
limited(list, n) == IF n = 0 \/ Len(list) <= n THEN list ELSE SubSeq(list, 1, n)

\* Math.ceil(total / limit) as the JSON response carries it: a number, or null
\* (the empty tuple) for the Infinity or NaN of a division by 0
totalPages(total, limit) ==
    IF limit = 0 THEN <<>> ELSE << (total + limit - 1) \div limit >>

\* the response of GET /api/orders: the orders found and the pagination
ListResponse(u, query, status, found, pagination) ==
    Response("list", u, 0, query, status, 0, "")
       @@ [orders |-> found, pagination |-> pagination]

\* routes/orders.js:102-106 when the store refuses the skip: a negative skip
\* is an error of the find, and the catch answers 500
ListFailed(u, query) ==
    /\ skipOf(query) < 0
    /\ last' = ListResponse(u, query, 500, <<>>, <<>>)
    /\ UNCHANGED <<content, today, designs, earlier, orders, req>>

\* routes/orders.js:96-106: the page of the caller's orders is read
ListFind(r, u, query) ==
    /\ freeSlot(r)
    /\ skipOf(query) >= 0
    /\ req' = [req EXCEPT ![r] =
                  [pc |-> "count", op |-> "list", user |-> u, query |-> query,
                   found |-> limited(skipped(newestFirst(matching(u, query)), skipOf(query)),
                                     parseInt(query.limit, defaultLimit))]]
    /\ UNCHANGED <<content, today, designs, earlier, orders, last>>

\* routes/orders.js:108-118: the matching orders are counted and the answer sent
ListCount(r) ==
    /\ req[r].pc = "count"
    /\ LET query == req[r].query
           total == Cardinality(matching(req[r].user, query))
           limit == parseInt(query.limit, defaultLimit)
       IN last' = ListResponse(req[r].user, query, 200, req[r].found,
                     << [currentPage |-> parseInt(query.page, defaultPage),
                         totalPages |-> totalPages(total, limit),
                         totalItems |-> total,
                         itemsPerPage |-> limit] >>)
    /\ req' = [req EXCEPT ![r] = Idle]
    /\ UNCHANGED <<content, today, designs, earlier, orders>>

----------------------------------------------------------------------------
(* PUT and DELETE /api/designs/:id *)

DesignStatuses == {"draft", "published", "archived"}

\* the designs an admin edits, the prices and publication states sent; an
\* absent field is the empty tuple
EditedDesigns == {"dA", "dB"}
DesignBodies ==
    [price : { <<>>, <<120000>>, <<-1000>> },
     status : { <<>>, <<"archived">>, <<"published">>, <<"gone">> }]

\* routes/designs.js:183: price is optional and, when sent, not negative
designValid(body) == IF body.price = <<>> THEN TRUE ELSE body.price[1] >= 0

\* the request of a design route: the :id and the body
DesignRequest(d, body) == [design |-> d] @@ body

\* routes/designs.js:187-190: validation errors
DesignUpdateInvalid(u, d, body) ==
    /\ adminAuth(u)
    /\ ~designValid(body)
    /\ last' = Response("designUpdate", u, 0, DesignRequest(d, body), 400, 0, "validation")
    /\ UNCHANGED <<content, today, designs, earlier, orders, req>>

\* routes/designs.js:192-195
DesignUpdateNotFound(u, d, body) ==
    /\ adminAuth(u)
    /\ designValid(body)
    /\ findDesign(d) = <<>>
    /\ last' = Response("designUpdate", u, 0, DesignRequest(d, body), 404, 0, "Design not found")
    /\ UNCHANGED <<content, today, designs, earlier, orders, req>>

\* Object.assign(design, req.body) for the two fields an order reads
designAssigned(design, body) ==
    [design EXCEPT
        !.price = IF body.price = <<>> THEN @ ELSE body.price[1],
        !.status = IF body.status = <<>> THEN @ ELSE body.status[1]]

\* routes/designs.js:198-199 at the save: the body's fields are written to the
\* stored design; a status outside the schema's enumeration fails the save's
\* validation and the catch answers 500
DesignUpdate(u, d, body) ==
    /\ adminAuth(u)
    /\ designValid(body)
    /\ findDesign(d) # <<>>
    /\ IF designAssigned(designs[d], body).status \in DesignStatuses
       THEN /\ designs' = [designs EXCEPT ![d] = designAssigned(@, body)]
            /\ last' = Response("designUpdate", u, 0, DesignRequest(d, body), 200, 0, "updated")
       ELSE /\ designs' = designs
            /\ last' = Response("designUpdate", u, 0, DesignRequest(d, body), 500, 0, "Server error")
    /\ UNCHANGED <<content, today, earlier, orders, req>>

\* routes/designs.js:222-229
DesignDelete(u, d) ==
    /\ adminAuth(u)
    /\ IF findDesign(d) = <<>>
       THEN /\ designs' = designs
            /\ last' = Response("designDelete", u, 0, [design |-> d], 404, 0, "Design not found")
       ELSE /\ designs' = [x \in DOMAIN designs \ {d} |-> designs[x]]
            /\ last' = Response("designDelete", u, 0, [design |-> d], 200, 0, "deleted")
    /\ UNCHANGED <<content, today, earlier, orders, req>>

----------------------------------------------------------------------------
(* The review routes, routes/reviews.js *)

ReviewTypes == {"design", "service", "overall"}
ReviewStatuses == {"pending", "approved", "rejected"}

\* a deleted document of a collection kept in insertion order
Deleted == [deleted |-> TRUE]

\* Review.findById
findReview(id) ==
    IF id \in 1..Len(reviews) /\ reviews[id] # Deleted THEN <<reviews[id]>> ELSE <<>>

\* the bodies of POST /api/reviews: a design review or a service review, with
\* or without a design, rated 5 or 0, titled "ok!" or " a " (one character
\* once trimmed)
ReviewBodies ==
    [type : {"design", "service"},
     design : { <<>>, <<"dA">> },
     rating : {5, 0},
     title : { <<"o", "k", "!">>, <<" ", "a", " ">> },
     comment : { <<"g", "r", "e", "a", "t">> }]

\* routes/reviews.js:72-76: the validators of POST /
reviewValid(body) ==
    /\ body.type \in ReviewTypes
    /\ body.rating \in 1..5
    /\ Len(trim(body.title)) \in 3..100
    /\ Len(trim(body.comment)) \in 5..1000
    /\ body.design # <<>> => body.design[1] \in MongoIds

\* routes/reviews.js:84: a design review names its design
designMissing(body) == body.type = "design" /\ body.design = <<>>

\* routes/reviews.js:88: Review.findOne({ user, design, type }); an absent
\* design matches the reviews stored without one
existing(u, design, type) ==
    { i \in 1..Len(reviews) :
         /\ reviews[i] # Deleted
         /\ reviews[i].user = u
         /\ reviews[i].design = design
         /\ reviews[i].type = type }

\* routes/reviews.js:79-81: validation errors
ReviewInvalid(u, body) ==
    /\ ~reviewValid(body)
    /\ last' = Response("review", u, 0, NoBody, 400, 0, "validation")
    /\ UNCHANGED <<today, designs, earlier, orders, req, content>>

\* routes/reviews.js:84-86
ReviewDesignRequired(u, body) ==
    /\ reviewValid(body)
    /\ designMissing(body)
    /\ last' = Response("review", u, 0, NoBody, 400, 0, "design required")
    /\ UNCHANGED <<today, designs, earlier, orders, req, content>>

\* routes/reviews.js:88-91: the caller already reviewed this item
ReviewDuplicate(u, body) ==
    /\ reviewValid(body)
    /\ ~designMissing(body)
    /\ existing(u, body.design, body.type) # {}
    /\ last' = Response("review", u, 0, body, 400, 0, "already reviewed")
    /\ UNCHANGED <<today, designs, earlier, orders, req, content>>

\* routes/reviews.js:92-100: the review built from the body, with the title
\* and comment the validators trimmed
newReview(u, body) ==
    [user |-> u, type |-> body.type, rating |-> body.rating,
     title |-> trim(body.title), comment |-> trim(body.comment),
     design |-> body.design, status |-> "pending"]

\* routes/reviews.js:88-100: the lookup finds nothing and the review is built
ReviewLookup(r, u, body) ==
    /\ freeSlot(r)
    /\ Len(reviews) + Cardinality(inFlight("review")) < MaxReviews
    /\ reviewValid(body)
    /\ ~designMissing(body)
    /\ existing(u, body.design, body.type) = {}
    /\ req' = [req EXCEPT ![r] =
                  [pc |-> "insert", op |-> "review", user |-> u, body |-> body,
                   doc |-> newReview(u, body)]]
    /\ UNCHANGED <<today, designs, earlier, orders, last, content>>

\* routes/reviews.js:101-102: review.save() and the 201
ReviewInsert(r) ==
    /\ req[r].pc = "insert"
    /\ req[r].op = "review"
    /\ reviews' = Append(reviews, req[r].doc)
    /\ last' = Response("review", req[r].user, 0, req[r].body, 201, Len(reviews) + 1, "submitted")
    /\ req' = [req EXCEPT ![r] = Idle]
    /\ UNCHANGED <<today, designs, earlier, orders, posts, customRequests, users>>

ReviewIds == 0..MaxReviews     \* :id values; 0 is the id of no review

\* the bodies of PUT /api/reviews/:id: a rating of 4 or 9 or none, and
\* possibly a status
ReviewUpdateBodies ==
    [rating : { <<>>, <<4>>, <<9>> },
     status : { <<>>, <<"approved">>, <<"rejected">> }]

\* routes/reviews.js:113-115: the validators of PUT /:id
reviewUpdateValid(body) == body.rating # <<>> => body.rating[1] \in 1..5

\* routes/reviews.js:126 and 148: neither the owner nor an admin
reviewDenied(review, u) == review.user # u /\ role(u) # "admin"

\* routes/reviews.js:118-121
ReviewUpdateInvalid(u, id, body) ==
    /\ ~reviewUpdateValid(body)
    /\ last' = Response("review.update", u, id, body, 400, 0, "validation")
    /\ UNCHANGED <<today, designs, earlier, orders, req, content>>

\* routes/reviews.js:122-125
ReviewUpdateNotFound(u, id, body) ==
    /\ reviewUpdateValid(body)
    /\ findReview(id) = <<>>
    /\ last' = Response("review.update", u, id, body, 404, 0, "Review not found")
    /\ UNCHANGED <<today, designs, earlier, orders, req, content>>

\* routes/reviews.js:126-128
ReviewUpdateDenied(u, id, body) ==
    /\ reviewUpdateValid(body)
    /\ findReview(id) # <<>>
    /\ reviewDenied(reviews[id], u)
    /\ last' = Response("review.update", u, id, body, 403, 0, "Access denied")
    /\ UNCHANGED <<today, designs, earlier, orders, req, content>>

\* routes/reviews.js:122-128: the review is loaded for its owner or an admin
ReviewUpdateLoad(r, u, id, body) ==
    /\ freeSlot(r)
    /\ reviewUpdateValid(body)
    /\ findReview(id) # <<>>
    /\ ~reviewDenied(reviews[id], u)
    /\ req' = [req EXCEPT ![r] =
                  [pc |-> "save", op |-> "review.update", user |-> u, review |-> id,
                   body |-> body, loaded |-> reviews[id]]]
    /\ UNCHANGED <<today, designs, earlier, orders, last, content>>

\* the body's fields assigned, the status among them
reviewAssignedAll(review, body) ==
    [review EXCEPT
        !.rating = IF body.rating = <<>> THEN @ ELSE body.rating[1],
        !.status = IF body.status = <<>> THEN "pending" ELSE body.status[1]]

\* routes/reviews.js:129-130: Object.assign(review, req.body), then the
\* status set to pending
reviewAssigned(review, body) ==
    [review EXCEPT
        !.rating = IF body.rating = <<>> THEN @ ELSE body.rating[1],
        !.status = "pending"]

\* routes/reviews.js:131-132: the modified paths are written to the stored
\* review; a review deleted meanwhile makes save throw (the catch answers 500)
ReviewUpdateSave(r) ==
    /\ req[r].pc = "save"
    /\ req[r].op = "review.update"
    /\ LET id == req[r].review
           loaded == req[r].loaded
           assigned == reviewAssigned(loaded, req[r].body)
       IN IF findReview(id) = <<>>
          THEN /\ reviews' = reviews
               /\ last' = Response("review.update", req[r].user, id, req[r].body, 500, 0, "Server error")
          ELSE /\ reviews' = [reviews EXCEPT ![id] =
                                [@ EXCEPT
                                   !.rating = savedPath(@, loaded.rating, assigned.rating),
                                   !.status = savedPath(@, loaded.status, assigned.status)]]
               /\ last' = Response("review.update", req[r].user, id, req[r].body, 200, id, "updated")
    /\ req' = [req EXCEPT ![r] = Idle]
    /\ UNCHANGED <<today, designs, earlier, orders, posts, customRequests, users>>

\* routes/reviews.js:144-147
ReviewDeleteNotFound(u, id) ==
    /\ findReview(id) = <<>>
    /\ last' = Response("review.delete", u, id, NoBody, 404, 0, "Review not found")
    /\ UNCHANGED <<today, designs, earlier, orders, req, content>>

\* routes/reviews.js:148-150
ReviewDeleteDenied(u, id) ==
    /\ findReview(id) # <<>>
    /\ reviewDenied(reviews[id], u)
    /\ last' = Response("review.delete", u, id, NoBody, 403, 0, "Access denied")
    /\ UNCHANGED <<today, designs, earlier, orders, req, content>>

\* routes/reviews.js:144-150: the review is found for its owner or an admin
ReviewDeleteLoad(r, u, id) ==
    /\ freeSlot(r)
    /\ findReview(id) # <<>>
    /\ ~reviewDenied(reviews[id], u)
    /\ req' = [req EXCEPT ![r] =
                  [pc |-> "delete", op |-> "review.delete", user |-> u, review |-> id]]
    /\ UNCHANGED <<today, designs, earlier, orders, last, content>>

\* routes/reviews.js:151-152: findByIdAndDelete, which also succeeds on a
\* review already gone
ReviewDelete(r) ==
    /\ req[r].pc = "delete"
    /\ req[r].op = "review.delete"
    /\ reviews' = [reviews EXCEPT ![req[r].review] = Deleted]
    /\ last' = Response("review.delete", req[r].user, req[r].review, NoBody, 200, 0, "deleted")
    /\ req' = [req EXCEPT ![r] = Idle]
    /\ UNCHANGED <<today, designs, earlier, orders, posts, customRequests, users>>

\* the two moderation routes and the status each sets
Verdicts == {"approved", "rejected"}

\* adminAuth of PUT /:id/approve and PUT /:id/reject refuses the caller
ReviewModerateDenied(u, id, verdict) ==
    /\ ~adminAuth(u)
    /\ last' = Response("review.moderate", u, id, [verdict |-> verdict], 403, 0, "Access denied")
    /\ UNCHANGED <<today, designs, earlier, orders, req, content>>

\* routes/reviews.js:164-167 and 181-184
ReviewModerateNotFound(u, id, verdict) ==
    /\ adminAuth(u)
    /\ findReview(id) = <<>>
    /\ last' = Response("review.moderate", u, id, [verdict |-> verdict], 404, 0, "Review not found")
    /\ UNCHANGED <<today, designs, earlier, orders, req, content>>

\* routes/reviews.js:164 and 181: the review is loaded for an admin
ReviewModerateLoad(r, u, id, verdict) ==
    /\ freeSlot(r)
    /\ adminAuth(u)
    /\ findReview(id) # <<>>
    /\ req' = [req EXCEPT ![r] =
                  [pc |-> "save", op |-> "review.moderate", user |-> u, review |-> id,
                   verdict |-> verdict, loaded |-> reviews[id]]]
    /\ UNCHANGED <<today, designs, earlier, orders, last, content>>

\* routes/reviews.js:168-170 and 185-187: the status is set and saved
ReviewModerateSave(r) ==
    /\ req[r].pc = "save"
    /\ req[r].op = "review.moderate"
    /\ LET id == req[r].review
       IN IF findReview(id) = <<>>
          THEN /\ reviews' = reviews
               /\ last' = Response("review.moderate", req[r].user, id, [verdict |-> req[r].verdict], 500, 0, "Server error")
          ELSE /\ reviews' = [reviews EXCEPT ![id].status =
                                savedPath(@, req[r].loaded.status, req[r].verdict)]
               /\ last' = Response("review.moderate", req[r].user, id, [verdict |-> req[r].verdict], 200, id, "moderated")
    /\ req' = [req EXCEPT ![r] = Idle]
    /\ UNCHANGED <<today, designs, earlier, orders, posts, customRequests, users>>

----------------------------------------------------------------------------
(* The blog routes, routes/blog.js, with the methods of models/Blog.js *)

PostPaths == PostIds \cup {"p0"}     \* :id values; p0 is the id of no post

\* Blog.findById
findPost(p) == IF p \in DOMAIN posts THEN <<posts[p]>> ELSE <<>>

\* the caller of a route without auth
Anonymous == "anonymous"

\* a save of a post: a write that needs no check of the version key
\* (whereVersion = <<>>) or one that the store applies only to a document
\* still at the version loaded; the write that fails throws and the catch of
\* the handler answers 500
versionMatches(stored, whereVersion) ==
    IF whereVersion = <<>> THEN TRUE ELSE stored.version = whereVersion[1]

\* the bodies of POST /:id/comment: "hi", or " x " (one character once
\* trimmed)
CommentBodies == { [content |-> <<"h", "i">>], [content |-> <<" ", "x", " ">>] }

\* routes/blog.js:149-150
commentValid(body) == Len(trim(body.content)) \in 2..1000

\* routes/blog.js:152-155
CommentInvalid(u, p, body) ==
    /\ ~commentValid(body)
    /\ last' = Response("comment", u, p, NoBody, 400, 0, "validation")
    /\ UNCHANGED <<today, designs, earlier, orders, req, content>>

\* routes/blog.js:156-159
CommentNotFound(u, p, body) ==
    /\ commentValid(body)
    /\ findPost(p) = <<>>
    /\ last' = Response("comment", u, p, NoBody, 404, 0, "Blog post not found")
    /\ UNCHANGED <<today, designs, earlier, orders, req, content>>

\* routes/blog.js:156: the post is loaded
CommentLoad(r, u, p, body) ==
    /\ freeSlot(r)
    /\ commentValid(body)
    /\ findPost(p) # <<>>
    /\ posts[p].added + Cardinality(inFlight("comment")) < MaxComments
    /\ req' = [req EXCEPT ![r] =
                  [pc |-> "save", op |-> "comment", user |-> u, post |-> p,
                   content |-> trim(body.content), loaded |-> posts[p]]]
    /\ UNCHANGED <<today, designs, earlier, orders, last, content>>

\* routes/blog.js:160-167 (as blogSchema.methods.addComment, Blog.js:164-172)
\* and the save: the comment is pushed onto the stored array, and
\* commentCount is written with the length of the handler's own copy
addComment(post, loaded, u, text) ==
    [post EXCEPT
        !.comments = Append(@, [id |-> post.added + 1, user |-> u,
                                content |-> text, isApproved |-> FALSE]),
        !.commentCount = savedPath(@, loaded.commentCount, Len(loaded.comments) + 1),
        !.added = @ + 1,
        !.version = @ + 1]

\* routes/blog.js:160-168
CommentSave(r) ==
    /\ req[r].pc = "save"
    /\ req[r].op = "comment"
    /\ posts' = [posts EXCEPT ![req[r].post] =
                    addComment(@, req[r].loaded, req[r].user, req[r].content)]
    /\ last' = Response("comment", req[r].user, req[r].post, NoBody, 200, 0, "submitted")
    /\ req' = [req EXCEPT ![r] = Idle]
    /\ UNCHANGED <<today, designs, earlier, orders, reviews, customRequests, users>>

CommentIds == 1..MaxComments

\* post.comments.id(commentId): the position of the comment, 0 when absent
commentAt(comments, c) ==
    IF \E k \in 1..Len(comments) : comments[k].id = c
    THEN CHOOSE k \in 1..Len(comments) : comments[k].id = c
    ELSE 0

\* the comments without the one of _id c
pulled(comments, c) == SelectSeq(comments, LAMBDA x : x.id # c)

\* routes/blog.js:202-209: no such post, or no such comment in it
CommentDeleteNotFound(u, p, c) ==
    /\ IF findPost(p) = <<>> THEN TRUE ELSE commentAt(posts[p].comments, c) = 0
    /\ last' = Response("comment.delete", u, p, NoBody, 404, 0, "not found")
    /\ UNCHANGED <<today, designs, earlier, orders, req, content>>

\* routes/blog.js:210-212: neither the comment's author nor an admin
CommentDeleteDenied(u, p, c) ==
    /\ findPost(p) # <<>>
    /\ commentAt(posts[p].comments, c) # 0
    /\ LET comment == posts[p].comments[commentAt(posts[p].comments, c)]
       IN comment.user # u /\ role(u) # "admin"
    /\ last' = Response("comment.delete", u, p, NoBody, 403, 0, "Access denied")
    /\ UNCHANGED <<today, designs, earlier, orders, req, content>>

\* routes/blog.js:202-212: the post is loaded for the comment's author or an
\* admin
CommentDeleteLoad(r, u, p, c) ==
    /\ freeSlot(r)
    /\ findPost(p) # <<>>
    /\ commentAt(posts[p].comments, c) # 0
    /\ LET comment == posts[p].comments[commentAt(posts[p].comments, c)]
       IN comment.user = u \/ role(u) = "admin"
    /\ req' = [req EXCEPT ![r] =
                  [pc |-> "save", op |-> "comment.delete", user |-> u, post |-> p,
                   comment |-> c, loaded |-> posts[p]]]
    /\ UNCHANGED <<today, designs, earlier, orders, last, content>>

\* routes/blog.js:213-216: the comment is pulled from the stored array by its
\* _id, and commentCount is written with the length of the handler's own copy
CommentDeleteSave(r) ==
    /\ req[r].pc = "save"
    /\ req[r].op = "comment.delete"
    /\ LET loaded == req[r].loaded
       IN posts' = [posts EXCEPT ![req[r].post] =
                      [@ EXCEPT
                         !.comments = pulled(@, req[r].comment),
                         !.commentCount =
                            savedPath(@, loaded.commentCount, Len(loaded.comments) - 1),
                         !.version = @ + 1]]
    /\ last' = Response("comment.delete", req[r].user, req[r].post,
                        [comment |-> req[r].comment], 200, 0, "deleted")
    /\ req' = [req EXCEPT ![r] = Idle]
    /\ UNCHANGED <<today, designs, earlier, orders, reviews, customRequests, users>>

\* adminAuth of PUT /:id/comment/:commentId/approve refuses the caller
CommentApproveDenied(u, p, c) ==
    /\ ~adminAuth(u)
    /\ last' = Response("comment.approve", u, p, NoBody, 403, 0, "Access denied")
    /\ UNCHANGED <<today, designs, earlier, orders, req, content>>

\* routes/blog.js:180-187
CommentApproveNotFound(u, p, c) ==
    /\ adminAuth(u)
    /\ IF findPost(p) = <<>> THEN TRUE ELSE commentAt(posts[p].comments, c) = 0
    /\ last' = Response("comment.approve", u, p, NoBody, 404, 0, "not found")
    /\ UNCHANGED <<today, designs, earlier, orders, req, content>>

\* routes/blog.js:180-187: the post is loaded for an admin
CommentApproveLoad(r, u, p, c) ==
    /\ freeSlot(r)
    /\ adminAuth(u)
    /\ findPost(p) # <<>>
    /\ commentAt(posts[p].comments, c) # 0
    /\ req' = [req EXCEPT ![r] =
                  [pc |-> "save", op |-> "comment.approve", user |-> u, post |-> p,
                   comment |-> c, loaded |-> posts[p]]]
    /\ UNCHANGED <<today, designs, earlier, orders, last, content>>

\* routes/blog.js:188-190: isApproved of the comment at its loaded position is
\* set, which the store applies only to a post still at the version loaded;
\* approving an approved comment modifies nothing
CommentApproveSave(r) ==
    /\ req[r].pc = "save"
    /\ req[r].op = "comment.approve"
    /\ LET p == req[r].post
           loaded == req[r].loaded
           k == commentAt(loaded.comments, req[r].comment)
           modified == ~loaded.comments[k].isApproved
       IN IF versionMatches(posts[p], IF modified THEN <<loaded.version>> ELSE <<>>)
          THEN /\ posts' = IF modified
                           THEN [posts EXCEPT ![p].comments[k].isApproved = TRUE]
                           ELSE posts
               /\ last' = Response("comment.approve", req[r].user, p,
                                   [comment |-> req[r].comment], 200, 0, "approved")
          ELSE /\ posts' = posts
               /\ last' = Response("comment.approve", req[r].user, p,
                                   [comment |-> req[r].comment], 500, 0, "Server error")
    /\ req' = [req EXCEPT ![r] = Idle]
    /\ UNCHANGED <<today, designs, earlier, orders, reviews, customRequests, users>>

\* the bodies of PUT /api/blog/:id: a new title ("Trendy"), a title too short
\* ("a"), or a commentCount
PostBodies ==
    { [title |-> << <<"T", "r", "e", "n", "d", "y">> >>, commentCount |-> <<>>],
      [title |-> << <<"a">> >>, commentCount |-> <<>>],
      [title |-> <<>>, commentCount |-> <<7>>] }

\* routes/blog.js:104-108: the validators of PUT /:id, which name title,
\* excerpt, content, category and tags only
postValid(body) ==
    body.title # <<>> => Len(trim(body.title[1])) \in 5..200

\* adminAuth of PUT /:id refuses the caller
PostUpdateDenied(u, p, body) ==
    /\ ~adminAuth(u)
    /\ last' = Response("post.update", u, p, NoBody, 403, 0, "Access denied")
    /\ UNCHANGED <<today, designs, earlier, orders, req, content>>

\* routes/blog.js:111-114
PostUpdateInvalid(u, p, body) ==
    /\ adminAuth(u)
    /\ ~postValid(body)
    /\ last' = Response("post.update", u, p, NoBody, 400, 0, "validation")
    /\ UNCHANGED <<today, designs, earlier, orders, req, content>>

\* routes/blog.js:115-118
PostUpdateNotFound(u, p, body) ==
    /\ adminAuth(u)
    /\ postValid(body)
    /\ findPost(p) = <<>>
    /\ last' = Response("post.update", u, p, NoBody, 404, 0, "Blog post not found")
    /\ UNCHANGED <<today, designs, earlier, orders, req, content>>

\* routes/blog.js:115: the post is loaded for an admin
PostUpdateLoad(r, u, p, body) ==
    /\ freeSlot(r)
    /\ adminAuth(u)
    /\ postValid(body)
    /\ findPost(p) # <<>>
    /\ req' = [req EXCEPT ![r] =
                  [pc |-> "save", op |-> "post.update", user |-> u, post |-> p,
                   body |-> body, loaded |-> posts[p]]]
    /\ UNCHANGED <<today, designs, earlier, orders, last, content>>

\* routes/blog.js:119: Object.assign(post, req.body), every field of the body
postAssigned(post, body) ==
    [post EXCEPT
        !.title = IF body.title = <<>> THEN @ ELSE trim(body.title[1]),
        !.commentCount = IF body.commentCount = <<>> THEN @ ELSE body.commentCount[1]]

\* routes/blog.js:120-121: the modified paths are written
PostUpdateSave(r) ==
    /\ req[r].pc = "save"
    /\ req[r].op = "post.update"
    /\ LET loaded == req[r].loaded
           assigned == postAssigned(loaded, req[r].body)
       IN posts' = [posts EXCEPT ![req[r].post] =
                      [@ EXCEPT
                         !.title = savedPath(@, loaded.title, assigned.title),
                         !.commentCount =
                            savedPath(@, loaded.commentCount, assigned.commentCount)]]
    /\ last' = Response("post.update", req[r].user, req[r].post, req[r].body, 200, 0, "updated")
    /\ req' = [req EXCEPT ![r] = Idle]
    /\ UNCHANGED <<today, designs, earlier, orders, reviews, customRequests, users>>

\* routes/blog.js:49-53
PostFetchNotFound(p) ==
    /\ findPost(p) = <<>>
    /\ last' = Response("post.get", Anonymous, p, NoBody, 404, 0, "Blog post not found")
    /\ UNCHANGED <<today, designs, earlier, orders, req, content>>

\* routes/blog.js:49-50: the post is loaded
PostFetchLoad(r, p) ==
    /\ freeSlot(r)
    /\ findPost(p) # <<>>
    /\ posts[p].viewCount + Cardinality(inFlight("post.get")) < MaxViews
    /\ req' = [req EXCEPT ![r] =
                  [pc |-> "save", op |-> "post.get", user |-> Anonymous, post |-> p,
                   loaded |-> posts[p]]]
    /\ UNCHANGED <<today, designs, earlier, orders, last, content>>

\* blogSchema.methods.incrementView (Blog.js:141-145) and
\* designSchema.methods.incrementView (Design.js:130-134): viewCount of the
\* handler's copy plus 1 is written to the stored document
incrementView(doc, loaded) == [doc EXCEPT !.viewCount = loaded.viewCount + 1]

\* routes/blog.js:54-55
PostFetchSave(r) ==
    /\ req[r].pc = "save"
    /\ req[r].op = "post.get"
    /\ posts' = [posts EXCEPT ![req[r].post] = incrementView(@, req[r].loaded)]
    /\ last' = Response("post.get", Anonymous, req[r].post, NoBody, 200, 0, "post")
    /\ req' = [req EXCEPT ![r] = Idle]
    /\ UNCHANGED <<today, designs, earlier, orders, reviews, customRequests, users>>

----------------------------------------------------------------------------
(* The GET routes of routes/designs.js *)

\* the GET routes of the designs router, in the order of their registration
\* (routes/designs.js:11, 90, 110, 288, 301)
designGetRoutes == <<"/", "/featured", "/:id", "/categories", "/styles">>

\* the paths requested under /api/designs, as their segments
DesignPaths ==
    { <<>>, <<"featured">>, <<"categories">>, <<"styles">> }
       \cup { <<d>> : d \in MongoIds }

\* a route pattern matches a path: a literal segment matches itself and the
\* parameter :id matches any one segment
routeMatches(route, path) ==
    CASE route = "/" -> path = <<>>
      [] route = "/featured" -> path = <<"featured">>
      [] route = "/categories" -> path = <<"categories">>
      [] route = "/styles" -> path = <<"styles">>
      [] route = "/:id" -> Len(path) = 1

\* the router hands the request to the first registered route that matches
dispatch(path) ==
    LET k == CHOOSE i \in 1..Len(designGetRoutes) :
                /\ routeMatches(designGetRoutes[i], path)
                /\ \A j \in 1..(i - 1) : ~routeMatches(designGetRoutes[j], path)
    IN designGetRoutes[k]

\* the answer of a GET on the designs: the route that handled it, the caller,
\* the path, the HTTP status, the designs returned with the status each was
\* read with, and the values of a distinct
DesignsResponse(route, u, path, status, found, values) ==
    Response(route, u, path, NoBody, status, 0, "")
       @@ [designs |-> found, values |-> values]

\* the document of design d as a response shows it
returned(d) == [id |-> d, status |-> designs[d].status]

\* Design.distinct(field)
distinct(field) == { designs[d][field] : d \in DOMAIN designs }

RECURSIVE newestDesigns(_)
\* sort({ createdAt: -1 }) of a set of designs
newestDesigns(S) ==
    IF S = {} THEN <<>>
    ELSE LET m == CHOOSE d \in S : \A e \in S : designs[e].created <= designs[d].created
         IN <<returned(m)>> \o newestDesigns(S \ {m})

\* routes/designs.js:92-98: the featured designs, the 6 newest
featured ==
    limited(newestDesigns({ d \in DOMAIN designs :
                               designs[d].status = "published" /\ designs[d].isFeatured }), 6)

\* routes/designs.js:112-118 and 127-131: findById of the :id segment; a
\* segment that is no ObjectId makes findById throw a cast error, which the
\* catch answers like a missing design
byId(path) ==
    IF path[1] \in MongoIds THEN findDesign(path[1]) ELSE <<>>

\* GET requests that are answered within one step: the router picks the
\* route, and the handler of that route answers; /:id is answered at once
\* for a design that is not found and for a caller without credentials
DesignsGet(u, path) ==
    /\ dispatch(path) # "/"
    /\ LET route == dispatch(path)
       IN CASE route = "/featured" ->
                 last' = DesignsResponse(route, u, path, 200, featured, {})
            [] route = "/categories" ->
                 last' = DesignsResponse(route, u, path, 200, <<>>, distinct("category"))
            [] route = "/styles" ->
                 last' = DesignsResponse(route, u, path, 200, <<>>, distinct("style"))
            [] route = "/:id" ->
                 /\ byId(path) = <<>> \/ u = Anonymous
                 /\ last' = IF byId(path) = <<>>
                            THEN DesignsResponse(route, u, path, 404, <<>>, {})
                            ELSE DesignsResponse(route, u, path, 200, <<returned(path[1])>>, {})
    /\ UNCHANGED <<today, designs, earlier, orders, req, content>>

\* routes/designs.js:112-122: the design is loaded for an authenticated caller
DesignViewLoad(r, u, path) ==
    /\ freeSlot(r)
    /\ dispatch(path) = "/:id"
    /\ u # Anonymous
    /\ byId(path) # <<>>
    /\ designs[path[1]].viewCount + Cardinality(inFlight("/:id")) < MaxViews
    /\ req' = [req EXCEPT ![r] =
                  [pc |-> "save", op |-> "/:id", user |-> u, path |-> path,
                   loaded |-> designs[path[1]]]]
    /\ UNCHANGED <<today, designs, earlier, orders, last, content>>

\* routes/designs.js:122-125: incrementView and the answer; a design deleted
\* meanwhile makes save throw (the catch answers 500)
DesignViewSave(r) ==
    /\ req[r].pc = "save"
    /\ req[r].op = "/:id"
    /\ LET d == req[r].path[1]
       IN IF findDesign(d) = <<>>
          THEN /\ designs' = designs
               /\ last' = DesignsResponse("/:id", req[r].user, req[r].path, 500, <<>>, {})
          ELSE /\ designs' = [designs EXCEPT ![d] = incrementView(@, req[r].loaded)]
               /\ last' = DesignsResponse("/:id", req[r].user, req[r].path, 200,
                                          <<[id |-> d, status |-> req[r].loaded.status]>>, {})
    /\ req' = [req EXCEPT ![r] = Idle]
    /\ UNCHANGED <<today, earlier, orders, content>>

\* the categories of the schema, and one that is none
DesignCategories == {"modern", "luxury", "interior"}

\* the queries of GET /api/designs: a category, a lowest price, a sort key and
\* order and a limit, each absent or sent
DesignQueries ==
    [category : { <<>>, <<"modern">>, <<"gothic">> },
     minPrice : { <<>>, <<60000>> },
     sortBy : { <<>>, <<"price">> },
     sortOrder : { <<>>, <<"asc">> },
     limit : { <<>>, <<1>> }]

\* routes/designs.js:12-20: the validators of GET /
designQueryValid(query) ==
    /\ query.category # <<>> => query.category[1] \in DesignCategories
    /\ query.minPrice # <<>> => query.minPrice[1] >= 0
    /\ query.sortBy # <<>> => query.sortBy[1] \in {"price", "createdAt", "viewCount"}
    /\ query.sortOrder # <<>> => query.sortOrder[1] \in {"asc", "desc"}
    /\ query.limit # <<>> => query.limit[1] \in 1..50

\* routes/designs.js:42-53: the published designs the filters keep
designFilter(query) ==
    { d \in DOMAIN designs :
         /\ designs[d].status = "published"
         /\ query.category # <<>> => designs[d].category = query.category[1]
         /\ query.minPrice # <<>> => designs[d].price >= query.minPrice[1] }

\* the value a design is sorted by
sortKey(d, sortBy) ==
    CASE sortBy = "price" -> designs[d].price
      [] sortBy = "viewCount" -> designs[d].viewCount
      [] OTHER -> designs[d].created

RECURSIVE sortedDesigns(_, _, _)
\* routes/designs.js:56-57 and 65: the designs of S by their sort key, the
\* smallest first when direction is 1 and the largest first when it is -1
sortedDesigns(S, sortBy, direction) ==
    IF S = {} THEN <<>>
    ELSE LET m == CHOOSE d \in S :
                     \A e \in S : sortKey(d, sortBy) * direction
                                     <= sortKey(e, sortBy) * direction
         IN <<returned(m)>> \o sortedDesigns(S \ {m}, sortBy, direction)

defaultDesignLimit == 12

\* routes/designs.js:24-27
DesignListInvalid(u, query) ==
    /\ ~designQueryValid(query)
    /\ last' = DesignsResponse("/", u, <<>>, 400, <<>>, {})
    /\ UNCHANGED <<today, designs, earlier, orders, req, content>>

\* routes/designs.js:29-67: the page of published designs is read
DesignListFind(r, u, query) ==
    /\ freeSlot(r)
    /\ designQueryValid(query)
    /\ LET sortBy == IF query.sortBy = <<>> THEN "createdAt" ELSE query.sortBy[1]
           direction == IF query.sortOrder = <<"asc">> THEN 1 ELSE -1
       IN req' = [req EXCEPT ![r] =
                    [pc |-> "count", op |-> "/", user |-> u, query |-> query,
                     found |-> limited(sortedDesigns(designFilter(query), sortBy, direction),
                                       parseInt(query.limit, defaultDesignLimit))]]
    /\ UNCHANGED <<today, designs, earlier, orders, last, content>>

\* routes/designs.js:70-80: the count and the answer
DesignListCount(r) ==
    /\ req[r].pc = "count"
    /\ req[r].op = "/"
    /\ last' = DesignsResponse("/", req[r].user, <<>>, 200, req[r].found, {})
                   @@ [totalItems |-> Cardinality(designFilter(req[r].query))]
    /\ req' = [req EXCEPT ![r] = Idle]
    /\ UNCHANGED <<today, designs, earlier, orders, content>>

----------------------------------------------------------------------------
(* POST and DELETE /api/designs/:id/favorite *)

\* the designs made favorites, and the id of no design
FavoriteDesigns == {"dA", "dB", "dX"}

\* the writes of u's favorites done or in flight
favoriteWrites(u) ==
    users[u].version
       + Cardinality({ r \in inFlight("favorite.add") \cup inFlight("favorite.remove") :
                          req[r].user = u })

\* user.favorites.includes(design._id)
includes(favorites, d) == \E k \in 1..Len(favorites) : favorites[k] = d

\* routes/designs.js:244-247 and 269-272: no such design
FavoriteNotFound(op, u, d) ==
    /\ findDesign(d) = <<>>
    /\ last' = Response(op, u, d, NoBody, 404, 0, "Design not found")
    /\ UNCHANGED <<today, designs, earlier, orders, req, content>>

\* routes/designs.js:249-252: the design is among the favorites of the user
\* document the auth gate loaded
FavoriteAddDuplicate(u, d) ==
    /\ findDesign(d) # <<>>
    /\ includes(users[u].favorites, d)
    /\ last' = Response("favorite.add", u, d, NoBody, 400, 0, "already in favorites")
    /\ UNCHANGED <<today, designs, earlier, orders, req, content>>

\* routes/designs.js:242-252: the auth gate loads the user, the design is
\* found, and it is not among the user's favorites
FavoriteAddLoad(r, u, d) ==
    /\ freeSlot(r)
    /\ findDesign(d) # <<>>
    /\ ~includes(users[u].favorites, d)
    /\ favoriteWrites(u) < MaxFavorites
    /\ req' = [req EXCEPT ![r] =
                  [pc |-> "save", op |-> "favorite.add", user |-> u, design |-> d,
                   loaded |-> users[u]]]
    /\ UNCHANGED <<today, designs, earlier, orders, last, content>>

\* routes/designs.js:254-257: the design is pushed onto the stored array
FavoriteAddSave(r) ==
    /\ req[r].pc = "save"
    /\ req[r].op = "favorite.add"
    /\ users' = [users EXCEPT ![req[r].user] =
                    [@ EXCEPT !.favorites = Append(@, req[r].design),
                              !.version = @ + 1]]
    /\ last' = Response("favorite.add", req[r].user, req[r].design, NoBody, 200, 0, "added")
    /\ req' = [req EXCEPT ![r] = Idle]
    /\ UNCHANGED <<today, designs, earlier, orders, reviews, posts, customRequests>>

\* routes/designs.js:267-272: the auth gate loads the user and the design is
\* found
FavoriteRemoveLoad(r, u, d) ==
    /\ freeSlot(r)
    /\ findDesign(d) # <<>>
    /\ favoriteWrites(u) < MaxFavorites
    /\ req' = [req EXCEPT ![r] =
                  [pc |-> "save", op |-> "favorite.remove", user |-> u, design |-> d,
                   loaded |-> users[u]]]
    /\ UNCHANGED <<today, designs, earlier, orders, last, content>>

\* routes/designs.js:275: the favorites without any occurrence of d
filtered(favorites, d) == SelectSeq(favorites, LAMBDA x : x # d)

\* routes/designs.js:275-278: the filtered copy replaces the array; an
\* unchanged array is not written, a changed one is written whole, which the
\* store applies only to a user still at the version loaded (otherwise save
\* throws and the catch answers 500)
FavoriteRemoveSave(r) ==
    /\ req[r].pc = "save"
    /\ req[r].op = "favorite.remove"
    /\ LET u == req[r].user
           loaded == req[r].loaded
           assigned == filtered(loaded.favorites, req[r].design)
           modified == assigned # loaded.favorites
       IN IF versionMatches(users[u], IF modified THEN <<loaded.version>> ELSE <<>>)
          THEN /\ users' = IF modified
                           THEN [users EXCEPT ![u] =
                                   [@ EXCEPT !.favorites = assigned, !.version = @ + 1]]
                           ELSE users
               /\ last' = Response("favorite.remove", u, req[r].design, NoBody, 200, 0, "removed")
          ELSE /\ users' = users
               /\ last' = Response("favorite.remove", u, req[r].design, NoBody, 500, 0, "Server error")
    /\ req' = [req EXCEPT ![r] = Idle]
    /\ UNCHANGED <<today, designs, earlier, orders, reviews, posts, customRequests>>

----------------------------------------------------------------------------
(* The custom-request routes, routes/customRequests.js *)

\* Design.js:234-238: the statuses of the custom-request schema, the ones the
\* status route names at part_000:131
RequestStatuses ==
    {"submitted", "reviewing", "quoted", "accepted", "in-progress", "completed", "cancelled"}

\* the bodies of POST and PUT: a title or none ("Villa", or "a", too short
\* for POST), a lowest budget, and possibly a status and a client
RequestBodies ==
    [title : { <<>>, << <<"V", "i", "l", "l", "a">> >>, << <<"a">> >> },
     budgetMin : {0, -1},
     status : { <<>>, <<"accepted">> },
     client : { <<>>, <<"u2">> }]

\* part_000:12-17: the validators of POST /, of which the title and the lowest
\* budget are followed here
requestValid(body) ==
    /\ body.title # <<>>
    /\ Len(trim(body.title[1])) \in 5..200
    /\ body.budgetMin >= 0

\* part_000:20-23
RequestInvalid(u, body) ==
    /\ ~requestValid(body)
    /\ last' = Response("request.create", u, 0, NoBody, 400, 0, "validation")
    /\ UNCHANGED <<today, designs, earlier, orders, req, content>>

\* part_000:24-26: the document built from the whole body, with the caller as
\* its client; a request without a status starts submitted (Design.js:237)
newRequest(u, body) ==
    [client |-> u,
     title |-> trim(body.title[1]),
     status |-> IF body.status = <<>> THEN "submitted" ELSE body.status[1]]

\* part_000:24-28
RequestCreate(u, body) ==
    /\ requestValid(body)
    /\ Len(customRequests) < MaxRequests
    /\ customRequests' = Append(customRequests, newRequest(u, body))
    /\ last' = Response("request.create", u, 0, NoBody, 201, Len(customRequests) + 1, "submitted")
    /\ UNCHANGED <<today, designs, earlier, orders, req, reviews, posts, users>>

RequestIds == 0..MaxRequests     \* :id values; 0 is the id of no request

\* CustomRequest.findById
findRequest(id) ==
    IF id \in 1..Len(customRequests) /\ customRequests[id] # Deleted
    THEN <<customRequests[id]>> ELSE <<>>

\* part_000:76, 95 and 116: neither an admin nor the client of the request
requestDenied(request, u) == role(u) # "admin" /\ request.client # u

\* the answer of a custom-request route, the requests of a listing with it
RequestResponse(op, u, id, body, status, found) ==
    Response(op, u, id, body, status, 0, "") @@ [requests |-> found]

\* part_000:42-44: the requests a listing selects: all of them for an admin, the
\* caller's own otherwise
requestFilter(u) ==
    { i \in 1..Len(customRequests) :
         /\ customRequests[i] # Deleted
         /\ role(u) = "admin" \/ customRequests[i].client = u }

\* part_000:40-49: the first page of the caller's requests is read, as the
\* documents it returns
RequestListFind(r, u) ==
    /\ freeSlot(r)
    /\ LET page == limited(newestFirst(requestFilter(u)), defaultLimit)
       IN req' = [req EXCEPT ![r] =
                    [pc |-> "count", op |-> "request.list", user |-> u,
                     found |-> [k \in 1..Len(page) |-> customRequests[page[k]]]]]
    /\ UNCHANGED <<today, designs, earlier, orders, last, content>>

\* part_000:50-59
RequestListCount(r) ==
    /\ req[r].pc = "count"
    /\ req[r].op = "request.list"
    /\ last' = RequestResponse("request.list", req[r].user, 0, NoBody, 200, req[r].found)
    /\ req' = [req EXCEPT ![r] = Idle]
    /\ UNCHANGED <<today, designs, earlier, orders, content>>

\* part_000:69-84: GET /:id
RequestGet(u, id) ==
    /\ last' = IF findRequest(id) = <<>>
               THEN RequestResponse("request.get", u, id, NoBody, 404, <<>>)
               ELSE IF requestDenied(customRequests[id], u)
               THEN RequestResponse("request.get", u, id, NoBody, 403, <<>>)
               ELSE RequestResponse("request.get", u, id, NoBody, 200, <<customRequests[id]>>)
    /\ UNCHANGED <<today, designs, earlier, orders, req, content>>

\* part_000:91-97 and 112-118: PUT /:id and DELETE /:id refuse a missing
\* request with 404 and a caller who is neither client nor admin with 403
RequestRefused(op, u, id) ==
    /\ IF findRequest(id) = <<>> THEN TRUE ELSE requestDenied(customRequests[id], u)
    /\ last' = RequestResponse(op, u, id, NoBody,
                                IF findRequest(id) = <<>> THEN 404 ELSE 403, <<>>)
    /\ UNCHANGED <<today, designs, earlier, orders, req, content>>

\* part_000:91-97: the request is loaded for its client or an admin
RequestUpdateLoad(r, u, id, body) ==
    /\ freeSlot(r)
    /\ findRequest(id) # <<>>
    /\ ~requestDenied(customRequests[id], u)
    /\ req' = [req EXCEPT ![r] =
                  [pc |-> "save", op |-> "request.update", user |-> u, request |-> id,
                   body |-> body, loaded |-> customRequests[id]]]
    /\ UNCHANGED <<today, designs, earlier, orders, last, content>>

\* part_000:98: Object.assign(customRequest, req.body), every field of the
\* body
requestAssigned(request, body) ==
    [request EXCEPT
        !.title = IF body.title = <<>> THEN @ ELSE body.title[1],
        !.status = IF body.status = <<>> THEN @ ELSE body.status[1],
        !.client = IF body.client = <<>> THEN @ ELSE body.client[1]]

\* part_000:99-100: the modified paths are written; a request deleted
\* meanwhile makes save throw (the catch answers 500)
RequestUpdateSave(r) ==
    /\ req[r].pc = "save"
    /\ req[r].op = "request.update"
    /\ LET id == req[r].request
           loaded == req[r].loaded
           assigned == requestAssigned(loaded, req[r].body)
       IN IF findRequest(id) = <<>>
          THEN /\ customRequests' = customRequests
               /\ last' = RequestResponse("request.update", req[r].user, id, req[r].body, 500, <<>>)
          ELSE /\ customRequests' = [customRequests EXCEPT ![id] =
                     [@ EXCEPT
                        !.title = savedPath(@, loaded.title, assigned.title),
                        !.status = savedPath(@, loaded.status, assigned.status),
                        !.client = savedPath(@, loaded.client, assigned.client)]]
               /\ last' = RequestResponse("request.update", req[r].user, id, req[r].body, 200, <<>>)
    /\ req' = [req EXCEPT ![r] = Idle]
    /\ UNCHANGED <<today, designs, earlier, orders, reviews, posts, users>>

\* part_000:112-118: the request is found for its client or an admin
RequestDeleteLoad(r, u, id) ==
    /\ freeSlot(r)
    /\ findRequest(id) # <<>>
    /\ ~requestDenied(customRequests[id], u)
    /\ req' = [req EXCEPT ![r] =
                  [pc |-> "delete", op |-> "request.delete", user |-> u, request |-> id]]
    /\ UNCHANGED <<today, designs, earlier, orders, last, content>>

\* part_000:119-120: findByIdAndDelete
RequestDelete(r) ==
    /\ req[r].pc = "delete"
    /\ req[r].op = "request.delete"
    /\ customRequests' = [customRequests EXCEPT ![req[r].request] = Deleted]
    /\ last' = RequestResponse("request.delete", req[r].user, req[r].request, NoBody, 200, <<>>)
    /\ req' = [req EXCEPT ![r] = Idle]
    /\ UNCHANGED <<today, designs, earlier, orders, reviews, posts, users>>

\* the statuses sent to PUT /:id/status
RequestStatusBodies == { [status |-> "quoted"], [status |-> "lost"] }

\* adminAuth of PUT /:id/status refuses the caller
RequestStatusDenied(u, id, body) ==
    /\ ~adminAuth(u)
    /\ last' = RequestResponse("request.status", u, id, body, 403, <<>>)
    /\ UNCHANGED <<today, designs, earlier, orders, req, content>>

\* part_000:134-137
RequestStatusNotFound(u, id, body) ==
    /\ adminAuth(u)
    /\ findRequest(id) = <<>>
    /\ last' = RequestResponse("request.status", u, id, body, 404, <<>>)
    /\ UNCHANGED <<today, designs, earlier, orders, req, content>>

\* part_000:130-137: the request is loaded for an admin; the validator of the
\* route is declared and its result never read, so no status is refused here
RequestStatusLoad(r, u, id, body) ==
    /\ freeSlot(r)
    /\ adminAuth(u)
    /\ findRequest(id) # <<>>
    /\ req' = [req EXCEPT ![r] =
                  [pc |-> "save", op |-> "request.status", user |-> u, request |-> id,
                   body |-> body, loaded |-> customRequests[id]]]
    /\ UNCHANGED <<today, designs, earlier, orders, last, content>>

\* part_000:138-140: the status is set and saved; a status outside the
\* enumeration fails the save's validation, as does a request deleted
\* meanwhile (the catch answers 500)
RequestStatusSave(r) ==
    /\ req[r].pc = "save"
    /\ req[r].op = "request.status"
    /\ LET id == req[r].request
       IN IF findRequest(id) = <<>> \/ req[r].body.status \notin RequestStatuses
          THEN /\ customRequests' = customRequests
               /\ last' = RequestResponse("request.status", req[r].user, id, req[r].body, 500, <<>>)
          ELSE /\ customRequests' = [customRequests EXCEPT ![id].status =
                     savedPath(@, req[r].loaded.status, req[r].body.status)]
               /\ last' = RequestResponse("request.status", req[r].user, id, req[r].body, 200, <<>>)
    /\ req' = [req EXCEPT ![r] = Idle]
    /\ UNCHANGED <<today, designs, earlier, orders, reviews, posts, users>>

----------------------------------------------------------------------------
(* The clock and the next-state relations *)

\* midnight passes
Tick ==
    /\ today < MaxDay
    /\ today' = today + 1
    /\ UNCHANGED <<content, designs, earlier, orders, req, last>>

\* the bodies that pass every check of POST /
ValidBodies == { body \in CreateBodies : createValid(body) /\ firstRejected(body.items) = 0 }

\* order creation alone, by the customers, with every body, over the days of
\* the calendar
NextNumbers ==
    \/ \E u \in Customers, body \in CreateBodies : CreateInvalid(u, body)
    \/ \E u \in Customers, body \in CreateBodies : CreateRejected(u, body)
    \/ \E r \in Reqs, u \in Customers, body \in ValidBodies : CreateCount(r, u, body, MaxOrders)
    \/ \E r \in Reqs : CreateInsert(r)
    \/ Tick

SpecNumbers == InitNumbers /\ [][NextNumbers]_vars

\* the requests on a stored order that are answered within one step
Answer ==
    \/ \E u \in Users, id \in OrderIds, body \in RefundBodies : RefundInvalid(u, id, body)
    \/ \E u \in Users, id \in OrderIds, body \in RefundBodies : RefundNotFound(u, id, body)
    \/ \E u \in Users, id \in OrderIds, body \in RefundBodies : RefundExceeds(u, id, body)
    \/ \E u \in Users, id \in OrderIds : GetOrder(u, id)
    \/ \E u \in Users, id \in OrderIds, body \in StatusBodies : StatusInvalid(u, id, body)
    \/ \E u \in Users, id \in OrderIds, body \in StatusBodies : StatusNotFound(u, id, body)

\* orders created by a customer, then read, re-statused and refunded by
\* requests that interleave
Next ==
    \/ \E r \in Reqs, body \in ValidBodies : CreateCount(r, "u1", body, MaxLive)
    \/ \E r \in Reqs : CreateInsert(r)
    \/ \E r \in Reqs, u \in Users, id \in OrderIds, body \in StatusBodies : StatusLoad(r, u, id, body)
    \/ \E r \in Reqs : StatusSave(r)
    \/ \E r \in Reqs, u \in Users, id \in OrderIds, body \in RefundBodies : RefundLoad(r, u, id, body)
    \/ \E r \in Reqs : RefundSave(r)
    \/ Answer

Spec == Init /\ [][Next]_vars

\* no other handler is in flight
alone(r) == \A q \in Reqs \ {r} : req[q].pc = "idle"

\* every mutating route, the requests served one at a time
NextSeq ==
    \/ \E r \in Reqs, u \in Customers, body \in ValidBodies :
          alone(r) /\ CreateCount(r, u, body, MaxLive)
    \/ \E r \in Reqs : alone(r) /\ CreateInsert(r)
    \/ \E r \in Reqs, u \in Users, id \in OrderIds, body \in StatusBodies :
          alone(r) /\ StatusLoad(r, u, id, body)
    \/ \E r \in Reqs : alone(r) /\ StatusSave(r)
    \/ \E r \in Reqs, u \in Users, id \in OrderIds, body \in TrackingBodies :
          alone(r) /\ TrackingLoad(r, u, id, body)
    \/ \E r \in Reqs : alone(r) /\ TrackingSave(r)
    \/ \E r \in Reqs, u \in Users, id \in OrderIds, body \in RefundBodies :
          alone(r) /\ RefundLoad(r, u, id, body)
    \/ \E r \in Reqs : alone(r) /\ RefundSave(r)
    \/ \E u \in Users, id \in OrderIds, body \in TrackingBodies : TrackingInvalid(u, id, body)
    \/ \E u \in Users, id \in OrderIds, body \in TrackingBodies : TrackingNotFound(u, id, body)
    \/ Answer

SpecSeq == Init /\ [][NextSeq]_vars

\* every status and payment status the status route accepts, the payment
\* status also left out
AllStatusBodies ==
    [status : OrderStatuses,
     paymentStatus : {<<>>} \cup { <<p>> : p \in PaymentStatuses }]

\* an order and the status updates of an admin, with every accepted body, one
\* request at a time
NextStatus ==
    \/ \E r \in Reqs, body \in ValidBodies :
          alone(r) /\ CreateCount(r, "u1", body, MaxLive)
    \/ \E r \in Reqs : alone(r) /\ CreateInsert(r)
    \/ \E r \in Reqs, u \in Users, id \in OrderIds, body \in AllStatusBodies :
          alone(r) /\ StatusLoad(r, u, id, body)
    \/ \E r \in Reqs : alone(r) /\ StatusSave(r)

SpecStatus == Init /\ [][NextStatus]_vars

RaceCreateBodies == { Body(<<Item("dB", 1)>>, "stripe", GoodBilling) }
RaceStatusBodies == { [status |-> "processing", paymentStatus |-> <<"paid">>],
                      [status |-> "refunded", paymentStatus |-> <<>>] }
RaceRefundBodies == { [amount |-> <<54250>>, reason |-> "damaged"] }

\* one order, with the status, tracking and refund requests of an admin
\* interleaved at their reads and writes
NextRace ==
    \/ \E r \in Reqs, body \in RaceCreateBodies : CreateCount(r, "u1", body, MaxLive)
    \/ \E r \in Reqs : CreateInsert(r)
    \/ \E r \in Reqs, id \in OrderIds, body \in RaceStatusBodies : StatusLoad(r, "admin", id, body)
    \/ \E r \in Reqs : StatusSave(r)
    \/ \E r \in Reqs, id \in OrderIds, body \in TrackingBodies : TrackingLoad(r, "admin", id, body)
    \/ \E r \in Reqs : TrackingSave(r)
    \/ \E r \in Reqs, id \in OrderIds, body \in RaceRefundBodies : RefundLoad(r, "admin", id, body)
    \/ \E r \in Reqs : RefundSave(r)

SpecRace == Init /\ [][NextRace]_vars

Ann == [name |-> "Ann", email |-> "a@b.c"]
Bob == [name |-> "Bob", email |-> "a@b.c"]
Depot == [name |-> "Depot", email |-> "a@b.c", street |-> "1 Quay"]

\* one cart, billed to Ann or Bob; shippingAddress absent, null, the billing
\* address of Ann again, or another address; and one body without billing
AddressBodies ==
    { Body(<<Item("dB", 1)>>, "stripe", <<b>>) : b \in {Ann, Bob} }
    \cup { BodyShipped(<<Item("dB", 1)>>, "stripe", <<b>>, s) :
              b \in {Ann, Bob}, s \in {null, Ann, Depot} }
    \cup { [Body(<<Item("dB", 1)>>, "stripe", <<>>) EXCEPT !.shippingAddress = <<Depot>>] }

\* order creation alone, with and without a shipping address
NextAddress ==
    \/ \E u \in Customers, body \in AddressBodies : CreateInvalid(u, body)
    \/ \E r \in Reqs, u \in Customers, body \in AddressBodies :
          CreateCount(r, u, body, MaxOrders)
    \/ \E r \in Reqs : CreateInsert(r)

SpecAddress == Init /\ [][NextAddress]_vars

\* the submission and the deletion of reviews by the customers, interleaved
NextReviews ==
    \/ \E u \in Customers, body \in ReviewBodies : ReviewInvalid(u, body)
    \/ \E u \in Customers, body \in ReviewBodies : ReviewDesignRequired(u, body)
    \/ \E u \in Customers, body \in ReviewBodies : ReviewDuplicate(u, body)
    \/ \E r \in Reqs, u \in Customers, body \in ReviewBodies : ReviewLookup(r, u, body)
    \/ \E r \in Reqs : ReviewInsert(r)
    \/ \E u \in Customers, id \in ReviewIds : ReviewDeleteNotFound(u, id)
    \/ \E u \in Customers, id \in ReviewIds : ReviewDeleteDenied(u, id)
    \/ \E r \in Reqs, u \in Customers, id \in ReviewIds : ReviewDeleteLoad(r, u, id)
    \/ \E r \in Reqs : ReviewDelete(r)

SpecReviews == Init /\ [][NextReviews]_vars

\* the reviews submitted in the sequential runs: a design review of dA and a
\* service review
SeqReviewBodies ==
    { body \in ReviewBodies :
         /\ reviewValid(body)
         /\ (body.type = "design") = (body.design # <<>>) }

\* the edits of the sequential runs: an empty body, a new rating with a
\* status, and a rating out of range
SeqReviewUpdateBodies ==
    { body \in ReviewUpdateBodies :
         \/ body.rating = <<>> /\ body.status = <<>>
         \/ body.rating = <<4>> /\ body.status = <<"approved">>
         \/ body.rating = <<9>> /\ body.status = <<>> }

\* the author of the reviews of the sequential runs
Reviewers == {"u1"}

\* every review route, one request at a time: reviews submitted by one
\* customer, then edited, deleted and moderated by every user
NextReviewSeq ==
    \/ \E u \in Reviewers, body \in SeqReviewBodies : ReviewDuplicate(u, body)
    \/ \E r \in Reqs, u \in Reviewers, body \in SeqReviewBodies :
          alone(r) /\ ReviewLookup(r, u, body)
    \/ \E r \in Reqs : ReviewInsert(r)
    \/ \E u \in Users, id \in ReviewIds, body \in SeqReviewUpdateBodies :
          \/ ReviewUpdateInvalid(u, id, body)
          \/ ReviewUpdateNotFound(u, id, body)
          \/ ReviewUpdateDenied(u, id, body)
    \/ \E r \in Reqs, u \in Users, id \in ReviewIds, body \in SeqReviewUpdateBodies :
          alone(r) /\ ReviewUpdateLoad(r, u, id, body)
    \/ \E r \in Reqs : ReviewUpdateSave(r)
    \/ \E u \in Users, id \in ReviewIds :
          \/ ReviewDeleteNotFound(u, id)
          \/ ReviewDeleteDenied(u, id)
    \/ \E r \in Reqs, u \in Users, id \in ReviewIds : alone(r) /\ ReviewDeleteLoad(r, u, id)
    \/ \E r \in Reqs : ReviewDelete(r)
    \/ \E u \in Users, id \in ReviewIds, verdict \in Verdicts :
          \/ ReviewModerateDenied(u, id, verdict)
          \/ ReviewModerateNotFound(u, id, verdict)
    \/ \E r \in Reqs, u \in Users, id \in ReviewIds, verdict \in Verdicts :
          alone(r) /\ ReviewModerateLoad(r, u, id, verdict)
    \/ \E r \in Reqs : ReviewModerateSave(r)

SpecReviewSeq == Init /\ [][NextReviewSeq]_vars

\* the comments of a post added, deleted and approved, and the post edited
\* by an admin: comment additions interleave with each other, every other
\* request is served while no other is in flight
NextBlog ==
    \/ \E u \in Customers, p \in PostPaths, body \in CommentBodies :
          \/ CommentInvalid(u, p, body)
          \/ CommentNotFound(u, p, body)
    \/ \E r \in Reqs, u \in Customers, p \in PostPaths, body \in CommentBodies :
          CommentLoad(r, u, p, body)
    \/ \E r \in Reqs : CommentSave(r)
    \/ \E u \in Users, p \in PostPaths, c \in CommentIds :
          \/ CommentDeleteNotFound(u, p, c)
          \/ CommentDeleteDenied(u, p, c)
          \/ CommentApproveDenied(u, p, c)
          \/ CommentApproveNotFound(u, p, c)
    \/ \E r \in Reqs, u \in Users, p \in PostPaths, c \in CommentIds :
          \/ alone(r) /\ CommentDeleteLoad(r, u, p, c)
          \/ alone(r) /\ CommentApproveLoad(r, u, p, c)
    \/ \E r \in Reqs : CommentDeleteSave(r)
    \/ \E r \in Reqs : CommentApproveSave(r)
    \/ \E u \in Users, p \in PostPaths, body \in PostBodies :
          \/ PostUpdateDenied(u, p, body)
          \/ PostUpdateInvalid(u, p, body)
          \/ PostUpdateNotFound(u, p, body)
    \/ \E r \in Reqs, u \in Users, p \in PostPaths, body \in PostBodies :
          alone(r) /\ PostUpdateLoad(r, u, p, body)
    \/ \E r \in Reqs : PostUpdateSave(r)

SpecBlog == Init /\ [][NextBlog]_vars

\* the designs fetched: a published one, a draft, and one stored nowhere
ViewedDesigns == {"dA", "dC", "dX"}

\* the fetches of a blog post and of the designs, by anyone, interleaved
NextViews ==
    \/ \E p \in PostPaths : PostFetchNotFound(p)
    \/ \E r \in Reqs, p \in PostPaths : PostFetchLoad(r, p)
    \/ \E r \in Reqs : PostFetchSave(r)
    \/ \E u \in Customers \cup {Anonymous}, d \in ViewedDesigns : DesignsGet(u, <<d>>)
    \/ \E r \in Reqs, u \in Customers, d \in ViewedDesigns : DesignViewLoad(r, u, <<d>>)
    \/ \E r \in Reqs : DesignViewSave(r)

SpecViews == Init /\ [][NextViews]_vars

\* an admin archives and publishes designs
PublishBodies ==
    { body \in DesignBodies :
         body.price = <<>> /\ body.status \in { <<"archived">>, <<"published">> } }

\* the listings requested: no filter, one filter, or every filter and sort
\* option at once
PublicQueries ==
    { query \in DesignQueries :
         Cardinality({ f \in DOMAIN query : query[f] # <<>> }) \in {0, 1, 5} }

\* the GET routes of the designs as a caller without credentials reaches
\* them, while an admin archives and publishes designs
NextPublic ==
    \/ \E path \in DesignPaths : DesignsGet(Anonymous, path)
    \/ \E query \in PublicQueries : DesignListInvalid(Anonymous, query)
    \/ \E r \in Reqs, query \in PublicQueries : DesignListFind(r, Anonymous, query)
    \/ \E r \in Reqs : DesignListCount(r)
    \/ \E d \in EditedDesigns, body \in PublishBodies : DesignUpdate("admin", d, body)

SpecPublic == Init /\ [][NextPublic]_vars

\* the customers add and remove favorites, interleaved
NextFavorites ==
    \/ \E u \in Customers, d \in FavoriteDesigns :
          \/ FavoriteNotFound("favorite.add", u, d)
          \/ FavoriteNotFound("favorite.remove", u, d)
          \/ FavoriteAddDuplicate(u, d)
    \/ \E r \in Reqs, u \in Customers, d \in FavoriteDesigns :
          \/ FavoriteAddLoad(r, u, d)
          \/ FavoriteRemoveLoad(r, u, d)
    \/ \E r \in Reqs : FavoriteAddSave(r)
    \/ \E r \in Reqs : FavoriteRemoveSave(r)

SpecFavorites == Init /\ [][NextFavorites]_vars

\* the bodies of the custom-request runs: a valid creation with or without a
\* status, an invalid creation, and edits of the title, the status or the
\* client
CustomCreateBodies ==
    { body \in RequestBodies :
         /\ body.client = <<>>
         /\ body.title # <<>>
         /\ (body.title = << <<"a">> >> \/ body.budgetMin < 0) => body.status = <<>> }

CustomUpdateBodies ==
    { body \in RequestBodies :
         /\ body.budgetMin = 0
         /\ Cardinality({ f \in {"title", "status", "client"} : body[f] # <<>> }) = 1
         /\ body.title # << <<"a">> >> }

\* every custom-request route, by every user, one request at a time
NextCustom ==
    \/ \E u \in Customers, body \in CustomCreateBodies : RequestInvalid(u, body)
    \/ \E u \in Customers, body \in CustomCreateBodies : RequestCreate(u, body)
    \/ \E r \in Reqs, u \in Users : alone(r) /\ RequestListFind(r, u)
    \/ \E r \in Reqs : RequestListCount(r)
    \/ \E u \in Users, id \in RequestIds : RequestGet(u, id)
    \/ \E u \in Users, id \in RequestIds :
          \/ RequestRefused("request.update", u, id)
          \/ RequestRefused("request.delete", u, id)
    \/ \E r \in Reqs, u \in Users, id \in RequestIds, body \in CustomUpdateBodies :
          alone(r) /\ RequestUpdateLoad(r, u, id, body)
    \/ \E r \in Reqs : RequestUpdateSave(r)
    \/ \E r \in Reqs, u \in Users, id \in RequestIds : alone(r) /\ RequestDeleteLoad(r, u, id)
    \/ \E r \in Reqs : RequestDelete(r)
    \/ \E u \in Users, id \in RequestIds, body \in RequestStatusBodies :
          \/ RequestStatusDenied(u, id, body)
          \/ RequestStatusNotFound(u, id, body)
    \/ \E r \in Reqs, u \in Users, id \in RequestIds, body \in RequestStatusBodies :
          alone(r) /\ RequestStatusLoad(r, u, id, body)
    \/ \E r \in Reqs : RequestStatusSave(r)

SpecCustom == Init /\ [][NextCustom]_vars

ListStatusBodies == { [status |-> "processing", paymentStatus |-> <<"paid">>] }

\* the orders of two customers, re-statused by an admin, and the customers'
\* listings of their orders, one listing at a time, with order creations and
\* status updates between its two reads
NextList ==
    \/ \E r \in Reqs, u \in Customers, body \in RaceCreateBodies :
          CreateCount(r, u, body, MaxOrders)
    \/ \E r \in Reqs : CreateInsert(r)
    \/ \E r \in Reqs, id \in 1..MaxOrders, body \in ListStatusBodies :
          StatusLoad(r, "admin", id, body)
    \/ \E r \in Reqs : StatusSave(r)
    \/ \E u \in Customers, query \in ListQueries : ListFailed(u, query)
    \/ \E r \in Reqs, u \in Customers, query \in ListQueries :
          /\ \A q \in Reqs : req[q].pc # "count"
          /\ ListFind(r, u, query)
    \/ \E r \in Reqs : ListCount(r)

SpecList == Init /\ [][NextList]_vars

\* the carts of the two designs that are published at the start
CatalogBodies ==
    { Body(c, "stripe", GoodBilling) :
         c \in { <<Item("dA", 1), Item("dB", 2)>>, <<Item("dB", 1)>> } }

\* orders created while an admin reprices, republishes, archives and deletes
\* the designs they name
NextCatalog ==
    \/ \E body \in CatalogBodies : CreateRejected("u1", body)
    \/ \E r \in Reqs, body \in CatalogBodies : CreateCount(r, "u1", body, MaxLive)
    \/ \E r \in Reqs : CreateInsert(r)
    \/ \E u \in Users, d \in EditedDesigns, body \in DesignBodies : DesignUpdateInvalid(u, d, body)
    \/ \E u \in Users, d \in EditedDesigns, body \in DesignBodies : DesignUpdateNotFound(u, d, body)
    \/ \E u \in Users, d \in EditedDesigns, body \in DesignBodies : DesignUpdate(u, d, body)
    \/ \E u \in Users, d \in EditedDesigns : DesignDelete(u, d)

SpecCatalog == Init /\ [][NextCatalog]_vars

----------------------------------------------------------------------------
(* Order numbers: claims checked under SpecNumbers *)

\* the digits of an order number after the six of the date
sequencePart(o) == SubSeq(o.orderNumber.digits, 7, Len(o.orderNumber.digits))

\* the orders of o's creation day stored before the i-th insert of the window
storedBefore(i) ==
    (IF orders[i].createdAt = 1 THEN earlier ELSE 0)
    + Cardinality({ j \in 1..(i - 1) : orders[j].createdAt = orders[i].createdAt })

\* C1: no two persisted orders share an orderNumber, whether inserted in the
\* window or stored before it, under every interleaving of the count and the
\* insert of concurrent POST /orders requests
C1_UniqueOrderNumbers ==
    /\ \A i, j \in 1..Len(orders) :
          i # j => orders[i].orderNumber # orders[j].orderNumber
    /\ \A i \in 1..Len(orders) : ~heldEarlier(orders[i].orderNumber)

\* two creations counted the same orders of the day; one was stored and the
\* other has just been refused by the unique index
C1_Witness ==
    /\ last.op = "create"
    /\ last.status = 500
    /\ Len(orders) >= 1
    /\ orders[Len(orders)].createdAt = today

\* a creation that passed validation and resolved every item, at its insert
inserts(r) == req[r].pc = "insert" /\ req'[r].pc = "idle"

\* C2: every POST /orders with a valid body whose items are all published
\* designs persists exactly one new order, numbered, pending / pending, and
\* answers 201, also while another creation is in flight
C2_ValidCreatePersists ==
    [][\A r \in Reqs :
          inserts(r) =>
             /\ Len(orders') = Len(orders) + 1
             /\ SubSeq(orders', 1, Len(orders)) = orders
             /\ orders'[Len(orders')].orderNumber.digits # <<>>
             /\ orders'[Len(orders')].customer = req[r].user
             /\ orders'[Len(orders')].status = "pending"
             /\ orders'[Len(orders')].paymentStatus = "pending"
             /\ last'.op = "create"
             /\ last'.status = 201
             /\ last'.order = Len(orders')]_vars

\* C4: an order's number is ORD, the two-digit year, month and day of its
\* creation, and a three-digit zero-padded sequence equal to 1 + the number of
\* orders already stored for that day; the sequences of one day increase in
\* creation order
C4_NumberShape ==
    /\ \A i \in 1..Len(orders) :
          /\ orders[i].orderNumber.tag = "ORD"
          /\ SubSeq(orders[i].orderNumber.digits, 1, 6) = datePrefix(orders[i].createdAt)
          /\ Len(sequencePart(orders[i])) = 3
          /\ toNumber(sequencePart(orders[i])) = 1 + storedBefore(i)
    /\ \A i, j \in 1..Len(orders) :
          (i < j /\ orders[i].createdAt = orders[j].createdAt)
             => toNumber(sequencePart(orders[i])) < toNumber(sequencePart(orders[j]))

\* C4 without the width of the sequence: what the hook does keep, also past
\* the 999th order of a day
C4_NumberShapeAnyWidth ==
    /\ \A i \in 1..Len(orders) :
          /\ orders[i].orderNumber.tag = "ORD"
          /\ SubSeq(orders[i].orderNumber.digits, 1, 6) = datePrefix(orders[i].createdAt)
          /\ Len(sequencePart(orders[i])) >= 3
          /\ toNumber(sequencePart(orders[i])) = 1 + storedBefore(i)
    /\ \A i, j \in 1..Len(orders) :
          (i < j /\ orders[i].createdAt = orders[j].createdAt)
             => toNumber(sequencePart(orders[i])) < toNumber(sequencePart(orders[j]))

\* C5: with 999 orders stored for the day a further POST /orders fails and
\* persists nothing, and no stored order has a sequence outside 001..999 or
\* longer than three digits
C5_DailyCapacity ==
    [][/\ \A r \in Reqs :
             (inserts(r) /\ orderCount(req[r].date) >= 999)
                => (orders' = orders /\ last'.status >= 400)
       /\ \A i \in 1..Len(orders') :
             /\ Len(sequencePart(orders'[i])) = 3
             /\ toNumber(sequencePart(orders'[i])) \in 1..999]_vars

\* the 1000th order of day 1 has been stored
C5_Overflowed ==
    \E i \in 1..Len(orders) : toNumber(sequencePart(orders[i])) = 1000

----------------------------------------------------------------------------
(* The lifecycle of a stored order: claims checked under Spec and SpecSeq *)

\* C3: for every stored order, after any sequence of status updates, tracking
\* updates and refunds, total = subtotal + tax and subtotal = the sum over its
\* items of price * quantity (so that calculateTotals would change nothing)
C3_TotalsConsistent ==
    \A i \in 1..Len(orders) :
       /\ orders[i].total = orders[i].subtotal + orders[i].tax
       /\ orders[i].subtotal = sumItems(orders[i].items)
       /\ calculateTotals(orders[i]) = orders[i]

\* a two-item order that was refunded, re-statused afterwards and tracked
C3_Witness ==
    \E i \in 1..Len(orders) :
       /\ Len(orders[i].items) = 2
       /\ orders[i].tax > 0
       /\ orders[i].refund # <<>>
       /\ orders[i].status \in {"processing", "cancelled"}
       /\ orders[i].tracking.updates # <<>>

\* the step in which the refund handler of slot r saves and answers
refundSaves(r) == req[r].pc = "save" /\ req[r].op = "refund" /\ req'[r].pc = "idle"

\* the refund record of the request in slot r
recorded(r, o) ==
    /\ o.refund # <<>>
    /\ o.refund[1].amount = req[r].body.amount[1]
    /\ o.refund[1].reason = req[r].body.reason
    /\ o.refund[1].processedBy = req[r].user

C7_ExcessRefundRejected ==
    [][/\ (/\ last'.op = "refund"
           /\ refundValid(last'.body)
           /\ findOrder(last'.target) # <<>>
           /\ last'.body.amount[1] > orders[last'.target].total)
          => (last'.status = 400 /\ orders' = orders)
       /\ \A i \in 1..Len(orders') :
             orders'[i].refund # <<>> => orders'[i].refund[1].amount <= orders'[i].total]_vars

\* a refund above the total has just been refused on an untouched order
C7_Witness ==
    /\ last.op = "refund"
    /\ last.status = 400
    /\ last.msg = "Refund amount cannot exceed order total"
    /\ last.body.amount[1] > orders[last.target].total
    /\ orders[last.target].refund = <<>>
    /\ orders[last.target].status = "pending"

\* C8: a refund request whose amount is missing, zero or negative, or whose
\* reason is empty, is answered 400 and leaves the orders unchanged; a refund
\* on an order that does not exist is answered 404
C8_InvalidRefundRejected ==
    [][last'.op = "refund" =>
          LET invalid == IF last'.body.amount = <<>> THEN TRUE
                         ELSE last'.body.amount[1] <= 0 \/ last'.body.reason = ""
          IN /\ (invalid /\ findOrder(last'.target) # <<>>)
                   => (last'.status = 400 /\ orders' = orders)
             /\ (~invalid /\ findOrder(last'.target) = <<>>) => last'.status = 404
             /\ (invalid /\ findOrder(last'.target) = <<>>) => last'.status \in {400, 404}]_vars

\* the step in which the tracking handler of slot r saves and answers
trackingSaves(r) == req[r].pc = "save" /\ req[r].op = "tracking" /\ req'[r].pc = "idle"

\* log is old with one entry added that carries the status of the body and its
\* location and description as the route hands them to addTrackingUpdate
appended(old, log, body) ==
    /\ Len(log) = Len(old) + 1
    /\ SubSeq(log, 1, Len(old)) = old
    /\ log[Len(log)].status = body.status
    /\ log[Len(log)].location = trim(body.location)
    /\ log[Len(log)].description = trim(body.description)

\* C9: a new order has an empty tracking log; each tracking call served in
\* turn appends exactly one entry carrying its status and its (trimmed)
\* location and description, also when the status repeats, and sets
\* tracking.status to its status; no other step touches the log.  So N calls
\* in sequence leave N entries in call order and tracking.status that of the
\* last call
C9_TrackingLog ==
    [][\A id \in 1..Len(orders') :
          IF id > Len(orders)
          THEN orders'[id].tracking = [status |-> "", updates |-> <<>>]
          ELSE IF \E r \in Reqs : trackingSaves(r) /\ req[r].order = id
          THEN \A r \in Reqs :
                  (trackingSaves(r) /\ req[r].order = id) =>
                     /\ appended(orders[id].tracking.updates,
                                 orders'[id].tracking.updates, req[r].body)
                     /\ orders'[id].tracking.status = req[r].body.status
                     /\ last'.status = 200
          ELSE orders'[id].tracking = orders[id].tracking]_vars

\* two calls with the same status left two entries
C9_Witness ==
    \E id \in 1..Len(orders) :
       /\ Len(orders[id].tracking.updates) = 2
       /\ orders[id].tracking.updates[2].location = <<"h", "u", "b">>
       /\ orders[id].tracking.updates[1].status = orders[id].tracking.updates[2].status
       /\ orders[id].tracking.status = orders[id].tracking.updates[2].status
       /\ last.op = "tracking"
       /\ last.status = 200

\* C10: GET /orders/:id by a caller who is neither the order's customer nor
\* an admin answers 403 without the order's data; the customer and any admin
\* get the order
C10_OwnerOrAdminOnly ==
    (last.op = "get" /\ findOrder(last.target) # <<>>) =>
        IF orders[last.target].customer # last.user /\ last.user \notin Admins
        THEN last.status = 403 /\ last.order = 0
        ELSE last.status = 200 /\ last.order = last.target

\* the other customer has just been refused
C10_Witness ==
    /\ last.op = "get"
    /\ last.status = 403
    /\ last.user \in Customers
    /\ findOrder(last.target) # <<>>
    /\ orders[last.target].customer # last.user

----------------------------------------------------------------------------
(* The status route: claims checked under SpecStatus and Spec *)

\* the step in which the status handler of slot r saves and answers
statusSaves(r) == req[r].pc = "save" /\ req[r].op = "status" /\ req'[r].pc = "idle"

C12_InvalidStatusRejected ==
    [][/\ last'.op = "status" =>
             LET invalid == IF last'.body.status \notin OrderStatuses THEN TRUE
                            ELSE IF last'.body.paymentStatus = <<>> THEN FALSE
                            ELSE last'.body.paymentStatus[1] \notin PaymentStatuses
             IN /\ invalid => (last'.status = 400 /\ orders' = orders)
                /\ (~invalid /\ findOrder(last'.target) = <<>>)
                      => (last'.status = 404 /\ orders' = orders)
       /\ \A i \in 1..Len(orders') :
             /\ orders'[i].status \in OrderStatuses
             /\ orders'[i].paymentStatus \in PaymentStatuses]_vars

\* a valid status with a payment status outside the enumeration has just been
\* refused on an order that is still pending
C12_Witness ==
    /\ last.op = "status"
    /\ last.status = 400
    /\ last.body.status \in OrderStatuses
    /\ last.body.paymentStatus # <<>>
    /\ findOrder(last.target) # <<>>
    /\ orders[last.target].status = "pending"
    /\ orders[last.target].paymentStatus = "pending"

----------------------------------------------------------------------------
(* The designs of a cart: claims checked under SpecNumbers and SpecCatalog *)

\* the response last sent answers a creation refused for one of its designs
refusedCart(resp) == resp.op = "create" /\ resp.body # NoBody

\* some item of the cart names a design that is not stored
namesMissing(items) ==
    \E i \in 1..Len(items) : findDesign(items[i].design) = <<>>

\* some item of the cart names a stored design that is not published
namesUnpublished(items) ==
    \E i \in 1..Len(items) :
       IF findDesign(items[i].design) = <<>> THEN FALSE
       ELSE findDesign(items[i].design)[1].status # "published"

C14_AllOrNothing ==
    [][/\ (refusedCart(last') /\ namesUnpublished(last'.body.items))
             => (last'.status = 400 /\ orders' = orders)
       /\ \A r \in Reqs :
             (req[r].pc = "idle" /\ req'[r].pc = "insert")
                => ~namesUnpublished(req'[r].body.items)]_vars

\* a cart whose first item is published and whose second is a draft has just
\* been refused
C14_Witness ==
    /\ refusedCart(last)
    /\ last.status = 400
    /\ last.msg = "not available"
    /\ Len(last.body.items) = 2
    /\ findDesign(last.body.items[1].design)[1].status = "published"
    /\ findDesign(last.body.items[2].design)[1].status = "draft"

\* the totals and items an order was created with
priced(o) == [items |-> o.items, subtotal |-> o.subtotal, tax |-> o.tax, total |-> o.total]

\* C15: each item of an order carries the price its design had when the
\* creating request read it, the order is stored with these prices, and no
\* later step (a design repriced, archived or deleted among them) changes a
\* stored order's items, subtotal, tax or total
C15_PricesFrozen ==
    [][/\ \A r \in Reqs :
             (req[r].pc = "idle" /\ req'[r].pc = "insert") =>
                \A i \in 1..Len(req'[r].body.items) :
                   /\ req'[r].doc.items[i].design = req'[r].body.items[i].design
                   /\ req'[r].doc.items[i].price = designs[req'[r].body.items[i].design].price
       /\ \A r \in Reqs :
             (inserts(r) /\ Len(orders') > Len(orders)) =>
                priced(orders'[Len(orders')]) = priced(req[r].doc)
       /\ \A i \in 1..Len(orders) : priced(orders'[i]) = priced(orders[i])]_vars

\* an order of two items, one design since deleted and the other repriced
C15_Witness ==
    \E i \in 1..Len(orders) :
       /\ Len(orders[i].items) = 2
       /\ findDesign(orders[i].items[1].design) = <<>>
       /\ findDesign(orders[i].items[2].design) # <<>>
       /\ findDesign(orders[i].items[2].design)[1].price # orders[i].items[2].price
       /\ orders[i].subtotal = sumItems(orders[i].items)

----------------------------------------------------------------------------
(* Interleaved requests on one order: claims checked under SpecRace *)

\* what an order is created with
identity(o) ==
    [orderNumber |-> o.orderNumber, customer |-> o.customer, items |-> o.items,
     subtotal |-> o.subtotal, tax |-> o.tax, total |-> o.total]

\* C16: an order is stored with its orderNumber, and no later step (the save
\* of a status update, of a tracking update or of a refund) changes its
\* orderNumber, customer, items, subtotal, tax or total
C16_NumberAssignedOnce ==
    [][/\ \A i \in 1..Len(orders) : identity(orders'[i]) = identity(orders[i])
       /\ \A i \in (Len(orders) + 1)..Len(orders') :
             /\ orders'[i].orderNumber.tag = "ORD"
             /\ Len(orders'[i].orderNumber.digits) >= 9]_vars

\* an order that was refunded, tracked and then re-statused still carries the
\* first number of its day
C16_Witness ==
    \E i \in 1..Len(orders) :
       /\ orders[i].refund # <<>>
       /\ orders[i].tracking.updates # <<>>
       /\ orders[i].status = "processing"
       /\ last.op = "status"
       /\ orders[i].orderNumber = orderNumber(orders[i].createdAt, 0)

\* C17: an order has a refund record exactly when a refund request was
\* accepted for it: an order is created without one, only the save of a
\* refund request writes one (its own), every such save leaves one, and no
\* step (a status or tracking save interleaved with it among them) removes it
C17_RefundIffProcessed ==
    [][/\ \A i \in (Len(orders) + 1)..Len(orders') : orders'[i].refund = <<>>
       /\ \A i \in 1..Len(orders) :
             /\ orders'[i].refund # orders[i].refund
                   => \E r \in Reqs :
                         refundSaves(r) /\ req[r].order = i /\ recorded(r, orders'[i])
             /\ orders[i].refund # <<>> => orders'[i].refund # <<>>
       /\ \A r \in Reqs : refundSaves(r) => recorded(r, orders'[req[r].order])]_vars

\* the status route has just set an order to refunded, and it has no refund
\* record
C17_Witness ==
    /\ last.op = "status"
    /\ last.status = 200
    /\ last.body.status = "refunded"
    /\ orders[last.target].status = "refunded"
    /\ orders[last.target].refund = <<>>

\* old is a prefix of log
prefix(old, log) == Len(old) <= Len(log) /\ SubSeq(log, 1, Len(old)) = old

\* C18: under every interleaving of tracking updates, status updates and
\* refunds, each step leaves the previous tracking log of an order as a prefix
\* of the new one, and the save of a tracking request adds exactly its own
\* entry at the end
C18_TrackingAppendOnly ==
    [][/\ \A i \in 1..Len(orders) :
             prefix(orders[i].tracking.updates, orders'[i].tracking.updates)
       /\ \A r \in Reqs :
             trackingSaves(r) =>
                appended(orders[req[r].order].tracking.updates,
                         orders'[req[r].order].tracking.updates, req[r].body)]_vars

\* three entries are logged, the last two written by requests that had both
\* read the order before either wrote (only then does tracking.status differ
\* from the status of the last entry)
C18_Witness ==
    \E i \in 1..Len(orders) :
       /\ Len(orders[i].tracking.updates) = 3
       /\ orders[i].tracking.status # orders[i].tracking.updates[3].status

\* C19: for every order with a non-empty tracking log, tracking.status is the
\* status of the last entry of the log, also after interleaved tracking
\* requests on the order
C19_TrackingStatusMirrors ==
    \A i \in 1..Len(orders) :
       orders[i].tracking.updates # <<>> =>
          orders[i].tracking.status
             = orders[i].tracking.updates[Len(orders[i].tracking.updates)].status

----------------------------------------------------------------------------
(* The listing of a customer's orders: claims checked under SpecList *)

\* the step in which the list handler of slot r counts and answers
listAnswers(r) == req[r].pc = "count" /\ req'[r].pc = "idle"

\* the answer of the list handler of slot r shows only orders of the caller
\* and a pagination with the caller's matching orders counted and the page
\* asked for
ownOrdersCounted(r) ==
    /\ last'.status = 200
    /\ \A k \in 1..Len(last'.orders) :
          /\ findOrder(last'.orders[k]) # <<>>
          /\ orders[last'.orders[k]].customer = req[r].user
    /\ last'.pagination[1].totalItems = Cardinality(matching(req[r].user, req[r].query))
    /\ last'.pagination[1].currentPage = parseInt(req[r].query.page, defaultPage)
    /\ last'.pagination[1].itemsPerPage = parseInt(req[r].query.limit, defaultLimit)

\* C20: GET /orders returns only orders of the caller, at most limit of them,
\* with totalItems = the number of the caller's orders matching the status
\* filter, totalPages = ceil(totalItems / itemsPerPage) and currentPage = the
\* requested page, whatever page, limit and status are passed
C20_OwnOrdersPaged ==
    [][\A r \in Reqs :
          listAnswers(r) =>
             LET p == last'.pagination[1]
             IN /\ ownOrdersCounted(r)
                /\ Len(last'.orders) <= p.itemsPerPage
                /\ p.totalPages # <<>>
                /\ p.totalPages[1] * p.itemsPerPage >= p.totalItems
                /\ (p.totalPages[1] - 1) * p.itemsPerPage < p.totalItems
                      \/ (p.totalItems = 0 /\ p.totalPages[1] = 0)]_vars

\* what the listing does keep for every query, and the rest of C20 for a
\* limit of at least 1
C20_OwnOrdersPagedPositiveLimit ==
    [][\A r \in Reqs :
          listAnswers(r) =>
             LET p == last'.pagination[1]
             IN /\ ownOrdersCounted(r)
                /\ p.itemsPerPage >= 1 =>
                      /\ Len(last'.orders) <= p.itemsPerPage
                      /\ p.totalPages # <<>>
                      /\ p.totalPages[1] * p.itemsPerPage >= p.totalItems
                      /\ (p.totalPages[1] - 1) * p.itemsPerPage < p.totalItems
                            \/ (p.totalItems = 0 /\ p.totalPages[1] = 0)]_vars

\* a listing with limit=0 has just returned both orders of the caller
C20_Unlimited ==
    /\ last.op = "list"
    /\ last.status = 200
    /\ last.body.limit = <<0>>
    /\ Len(last.orders) = 2
    /\ last.pagination[1].totalPages = <<>>

----------------------------------------------------------------------------
(* The addresses of a new order: claims checked under SpecAddress *)

\* C21: when POST /orders omits shippingAddress the persisted order's
\* shippingAddress equals its billingAddress; when a shipping address is
\* supplied it is stored as given; in both cases billingAddress is the one
\* of the body
C21_ShippingDefaultsToBilling ==
    [][\A r \in Reqs :
          (inserts(r) /\ last'.status = 201) =>
             LET o == orders'[Len(orders')]
                 body == req[r].body
             IN /\ Len(orders') = Len(orders) + 1
                /\ o.billingAddress = body.billingAddress[1]
                /\ body.shippingAddress = <<>> => o.shippingAddress = o.billingAddress
                /\ body.shippingAddress \in { <<Ann>>, <<Depot>> } =>
                      o.shippingAddress = body.shippingAddress[1]]_vars

\* two orders are stored, both billed to Bob: one created without
\* shippingAddress and shipped to Bob, one created with the depot's address
\* and shipped there
C21_Witness ==
    /\ Len(orders) = 2
    /\ \A i \in 1..2 : orders[i].billingAddress = Bob
    /\ \E i \in 1..2 : orders[i].shippingAddress = Bob
    /\ \E i \in 1..2 : orders[i].shippingAddress = Depot

----------------------------------------------------------------------------
(* Reviews: claims checked under SpecReviews and SpecReviewSeq *)

\* the stored reviews
storedReviews == { i \in 1..Len(reviews) : reviews[i] # Deleted }

\* C22: after any sequence of POST /reviews requests, also two concurrent ones
\* by the same user that both run the lookup before either saves, at most
\* one review exists for a given (user, design, type)
C22_OneReviewPerTriple ==
    \A i, j \in storedReviews :
       i < j =>
          <<reviews[i].user, reviews[i].design, reviews[i].type>>
             # <<reviews[j].user, reviews[j].design, reviews[j].type>>

\* the step in which slot r saves an accepted PUT /reviews/:id
reviewUpdateSaves(r) ==
    req[r].pc = "save" /\ req[r].op = "review.update" /\ req'[r].pc = "idle"

\* the step in which slot r saves an admin's approval of review i
approves(r, i) ==
    /\ req[r].pc = "save"
    /\ req[r].op = "review.moderate"
    /\ req[r].verdict = "approved"
    /\ req[r].review = i
    /\ adminAuth(req[r].user)
    /\ req'[r].pc = "idle"

\* review i is approved after the step and was not before it
becomesApproved(i) ==
    /\ reviews'[i] # Deleted
    /\ reviews'[i].status = "approved"
    /\ \/ i > Len(reviews)
       \/ reviews[i] = Deleted
       \/ reviews[i].status # "approved"

\* the step answers a PUT or DELETE of an existing review by a user who is
\* neither its owner nor an admin
answersStranger ==
    /\ last' # last
    /\ last'.op \in {"review.update", "review.delete"}
    /\ IF findReview(last'.target) = <<>> THEN FALSE
       ELSE reviewDenied(reviews[last'.target], last'.user)

----------------------------------------------------------------------------
(* Blog posts: claims checked under SpecBlog *)

\* C23: in every reachable state of a blog post, commentCount equals the
\* number of entries in comments, after any sequence of comment additions,
\* deletions, approvals and admin post updates, two additions that both read
\* the post before either saves included
C23_CommentCountMatches ==
    \A p \in PostIds : posts[p].commentCount = Len(posts[p].comments)

----------------------------------------------------------------------------
(* View counters: claims checked under SpecViews *)

\* the step in which slot r saves the view of a fetch
viewSaves(r, op) == req[r].pc = "save" /\ req[r].op = op /\ req'[r].pc = "idle"

\* C28: each successful GET /blog/:id increases the post's viewCount by
\* exactly 1, in any interleaving, fetches that read the post before an
\* earlier fetch has saved included; each authenticated GET /designs/:id adds
\* exactly 1 to the design's viewCount, and an unauthenticated one leaves the
\* design unchanged
C28_EveryViewCounted ==
    [][/\ \A r \in Reqs :
            (viewSaves(r, "post.get") /\ last'.status = 200) =>
               posts'[req[r].post].viewCount = posts[req[r].post].viewCount + 1
       /\ \A r \in Reqs :
            (viewSaves(r, "/:id") /\ last'.status = 200) =>
               designs'[req[r].path[1]].viewCount = designs[req[r].path[1]].viewCount + 1
       /\ (last' # last /\ last'.user = Anonymous) => designs' = designs]_vars

----------------------------------------------------------------------------
(* The public design endpoints: claims checked under SpecPublic *)

\* C24: GET /api/designs/categories and GET /api/designs/styles are
\* reachable and respond 200 with the distinct categories / styles of the
\* stored designs; neither request is handled by the GET /api/designs/:id
\* route
C24_CategoriesReachable ==
    /\ (last.op \in {"/:id", "/categories"} /\ last.target = <<"categories">>) =>
          /\ last.op = "/categories"
          /\ last.status = 200
          /\ last.values = distinct("category")
    /\ (last.op \in {"/:id", "/styles"} /\ last.target = <<"styles">>) =>
          /\ last.op = "/styles"
          /\ last.status = 200
          /\ last.values = distinct("style")

\* GET /api/designs/categories was just answered 404 by the /:id route
C24_Shadowed ==
    /\ last.op = "/:id"
    /\ last.target = <<"categories">>
    /\ last.status = 404

\* the latest response is a public endpoint's answer with designs in it
answersDesigns ==
    /\ last.op \in {"/", "/featured", "/:id"}
    /\ last.user = Anonymous
    /\ last.status = 200

\* C30: a design that is not published (draft or archived) is never returned
\* by a public, unauthenticated design endpoint: GET /designs under every
\* filter and sort, GET /designs/featured and GET /designs/:id return
\* published designs only
C30_PublishedOnly ==
    answersDesigns =>
       \A k \in 1..Len(last.designs) : last.designs[k].status = "published"

\* what holds of C30: the list and the featured list return published designs
C30_ListsPublishedOnly ==
    (answersDesigns /\ last.op # "/:id") =>
       \A k \in 1..Len(last.designs) : last.designs[k].status = "published"

\* GET /api/designs/:id has just returned a draft to a caller without
\* credentials
C30_DraftReturned ==
    /\ answersDesigns
    /\ last.op = "/:id"
    /\ last.designs[1].status = "draft"

----------------------------------------------------------------------------
(* Favorites: claims checked under SpecFavorites *)

\* C29: a user's favorites list never contains the same design twice, after
\* any sequence of add and remove requests, two concurrent add requests by
\* the same user for the same design included
C29_NoDuplicateFavorites ==
    \A u \in Users :
       \A i, j \in 1..Len(users[u].favorites) :
          i # j => users[u].favorites[i] # users[u].favorites[j]

----------------------------------------------------------------------------
(* Custom requests: claims checked under SpecCustom *)

\* the custom requests stored before and after the step
keptRequests ==
    { i \in 1..Len(customRequests) :
         customRequests[i] # Deleted /\ customRequests'[i] # Deleted }

\* the step is the save of a request of an admin on custom request i
adminSaves(i) ==
    \E r \in Reqs :
       /\ req[r].pc = "save"
       /\ req[r].op \in {"request.update", "request.status"}
       /\ req[r].request = i
       /\ role(req[r].user) = "admin"
       /\ req'[r].pc = "idle"

\* C25: a custom request's status changes only through an admin's request:
\* whatever non-admin users send, the owning client's PUT /:id included, the
\* status of every custom request stays the value it had from creation or
\* from the last admin action
C25_StatusChangedByAdminOnly ==
    [][\A i \in keptRequests :
          customRequests'[i].status # customRequests[i].status => adminSaves(i)]_vars

\* the owner's PUT with a status in its body has just been accepted, and the
\* request has that status
C25_OwnerSetStatus ==
    /\ last.op = "request.update"
    /\ last.status = 200
    /\ last.user \in Customers
    /\ last.body.status = <<"accepted">>
    /\ customRequests[last.target] # Deleted
    /\ customRequests[last.target].status = "accepted"

\* the step answers a GET, PUT or DELETE of a stored request by a user who
\* is neither an admin nor its client
answersOutsider ==
    /\ last' # last
    /\ last'.op \in {"request.get", "request.update", "request.delete"}
    /\ IF findRequest(last'.target) = <<>> THEN FALSE
       ELSE requestDenied(customRequests[last'.target], last'.user)

\* C26: a non-admin user can never read, modify or delete a custom request
\* whose client is another user: GET, PUT and DELETE /:id answer 403 and
\* leave the request unchanged, GET / lists only the caller's own requests,
\* and no PUT by an owner changes the client of a request
C26_OwnRequestsOnly ==
    [][/\ answersOutsider =>
            /\ last'.status = 403
            /\ last'.requests = <<>>
            /\ customRequests' = customRequests
       /\ (last' # last /\ last'.op = "request.list" /\ role(last'.user) # "admin") =>
            \A k \in 1..Len(last'.requests) : last'.requests[k].client = last'.user
       /\ \A i \in keptRequests :
            customRequests'[i].client # customRequests[i].client => adminSaves(i)]_vars

\* the owner's PUT with a client in its body has just been accepted, and the
\* request now belongs to the other customer
C26_OwnerGaveAway ==
    /\ last.op = "request.update"
    /\ last.status = 200
    /\ last.user = "u1"
    /\ last.body.client = <<"u2">>
    /\ customRequests[last.target] # Deleted
    /\ customRequests[last.target].client = "u2"

====
